---- MODULE Spec2Model ----
(***************************************************************************)
(* Tenant-isolation governance layer of stellar-monitor-tenant-isolation:  *)
(* credential resolution (api/middleware.rs), the task-local tenant        *)
(* context (utils/tenant_context.rs), the tenant-filtered repositories     *)
(* (repositories/*.rs), the monitor service with its quota check           *)
(* (services/monitor_service.rs), the quota status (repositories/tenant.rs)*)
(* and the rate limiter (api/middleware.rs).                               *)
(*                                                                         *)
(* Strings that the code parses are sequences of symbols: a credential is  *)
(* <<"smt_", secret>> (an API key) or <<jwt>> (a bearer token).            *)
(* A database table is a set of rows; a row is a record of its columns.    *)
(***************************************************************************)
EXTENDS Integers, Sequences, FiniteSets, TLC

(***************************************************************************)
(* Bounds of the model.                                                    *)
(***************************************************************************)
MaxQuota == 2            \* max_monitors of a tenant ranges over 0..MaxQuota
MaxClock == 2            \* the clock is advanced at most MaxClock times
MaxAdmitted == 4         \* admissions of one window are counted up to MaxAdmitted

Req == {"r1", "r2"}      \* concurrently executing request tasks
Tenants == {"A", "B"}    \* ids of the rows of table tenants
DummyTenant == "X"       \* the Uuid::new_v4() of tenant_context_middleware
MonitorIds == {"m1", "m2"}
NetworkIds == {"n1"}
TriggerIds == {"t1"}
Users == {"u1", "u2"}

NoUser == [id |-> "None", role |-> "None"]   \* Option::None of TenantContext.user
NoKey == "NoKey"         \* Option::None of TenantContext.api_key_id
None == <<>>             \* Option::None; Some(x) is <<x>>
Some(x) == <<x>>
\* the UUID of no row of tenant_networks
UnknownNetwork == <<"net">>
\* TENANT_CONTEXT holds no value for the task
NoContext == [tenant_id |-> "None", user |-> NoUser, api_key_id |-> NoKey]
\* the task unwinds from a panic
Panic == [tenant_id |-> "Panic", user |-> NoUser, api_key_id |-> NoKey]
NoResp == [status |-> 0, code |-> "NoResp", message |-> ""]

(***************************************************************************)
(* State.                                                                  *)
(***************************************************************************)
VARIABLES
    tenants,             \* table tenants: id -> row
    tenant_memberships,  \* table tenant_memberships: set of rows
    api_keys,            \* table api_keys: set of rows
    db,                  \* tenant_monitors, tenant_networks, tenant_triggers, resource_usage
    TENANT_CONTEXT,      \* the task-local: task -> bound context or NoContext
    RATE_LIMITS,         \* the process-wide map tenant id -> RateLimitEntry
    now,                 \* the clock, in seconds             
    pc,                  \* where each request task is
    req,                 \* the inputs of each request
    local,               \* the local variables of each task
    resp,                \* the response each request got
    solo,                \* per tenant: the store as if only that tenant had issued requests
    agree,               \* per task: every value it observed equals the one observed on solo
    admitted             \* per tenant: requests the rate limiter admitted in the current window

vars == <<tenants, tenant_memberships, api_keys, db, TENANT_CONTEXT, RATE_LIMITS,
          now, pc, req, local, resp, solo, agree, admitted>>

(***************************************************************************)
(* config.rs: AuthConfig defaults.                                         *)
(***************************************************************************)
api_key_prefix == "smt_"

(***************************************************************************)
(* utils/auth.rs: the password hash and the token primitives.              *)
(***************************************************************************)
hash_password(password) == <<"argon2", password>>

verify_password(password, hash) == hash = hash_password(password)

\* a bearer token: its subject, whether its signature verifies, and its expiry
Jwt(sub, sig_ok, exp) == <<"jwt", sub, sig_ok, exp>>

\* decode::<Claims>(token, key, Validation::default()): signature and exp
verify_jwt(token) ==
    IF Len(token) = 4 /\ token[1] = "jwt" /\ token[3] /\ token[4] >= now
    THEN [ok |-> TRUE, sub |-> token[2]]
    ELSE [ok |-> FALSE, sub |-> "None"]

(***************************************************************************)
(* models/tenant.rs: roles.                                                *)
(***************************************************************************)
Roles == {"owner", "admin", "member", "viewer"}

RoleCanWrite(role) == role \in {"owner", "admin", "member"}

can_manage_tenant(role) == role \in {"owner", "admin"}

(***************************************************************************)
(* utils/tenant_context.rs: TenantContext.                                 *)
(***************************************************************************)
TenantContextNew(tenant_id) ==
    [tenant_id |-> tenant_id, user |-> NoUser, api_key_id |-> NoKey]

with_user(tenant_id, user) ==
    [tenant_id |-> tenant_id, user |-> user, api_key_id |-> NoKey]

with_api_key(tenant_id, api_key_id) ==
    [tenant_id |-> tenant_id, user |-> NoUser, api_key_id |-> api_key_id]

\* can_write that lets every role write
can_write_any_role(context) == TRUE

can_write(context) ==
    IF context.user # NoUser THEN RoleCanWrite(context.user.role) ELSE TRUE

can_manage(context) ==
    IF context.user # NoUser THEN can_manage_tenant(context.user.role) ELSE FALSE

\* with_tenant_context over a process-wide static instead of a task-local
with_tenant_context_global(r, context) == [x \in DOMAIN TENANT_CONTEXT |-> context]

\* scope entry of TENANT_CONTEXT.scope(context, f): the value is bound for task r
with_tenant_context(r, context) == [TENANT_CONTEXT EXCEPT ![r] = context]

\* scope exit: the future f completed or was dropped
scope_exit(r) == [TENANT_CONTEXT EXCEPT ![r] = NoContext]

\* current_tenant_context with unwrap_or_default() for expect()
current_tenant_context_or_default(r) ==
    IF TENANT_CONTEXT[r] = NoContext THEN TenantContextNew(DummyTenant)
    ELSE TENANT_CONTEXT[r]

\* try_with(...).expect("No tenant context set")
current_tenant_context(r) ==
    IF TENANT_CONTEXT[r] = NoContext THEN Panic ELSE TENANT_CONTEXT[r]

current_tenant_id(r) == current_tenant_context(r).tenant_id

(***************************************************************************)
(* Results and errors.  A TenantRepositoryError e travels through the      *)
(* service as ServiceError::Repository(e) (#[from]).                       *)
(***************************************************************************)
Ok(val) == [ok |-> TRUE, val |-> val]

Err(e) == [ok |-> FALSE, val |-> e]

Repository(kind) == <<"Repository", kind>>

AccessDenied == <<"AccessDenied">>

QuotaExceeded == <<"QuotaExceeded">>

\* api/handlers.rs: the status, code and message of an error response
into_response(err) ==
    CASE err = AccessDenied ->
            [status |-> 403, code |-> "ACCESS_DENIED", message |-> "Access denied"]
      [] err = QuotaExceeded ->
            [status |-> 429, code |-> "QUOTA_EXCEEDED", message |-> "Quota exceeded"]
      [] err = <<"ValidationError">> ->
            [status |-> 400, code |-> "VALIDATION_ERROR", message |-> "Validation error"]
      [] err = Repository("ResourceNotFound") ->
            [status |-> 404, code |-> "NOT_FOUND", message |-> "Resource not found"]
      [] err = Repository("AlreadyExists") ->
            [status |-> 409, code |-> "ALREADY_EXISTS", message |-> "Resource already exists"]
      [] OTHER ->
            [status |-> 500, code |-> "INTERNAL_ERROR", message |-> "Internal server error"]

\* a bare StatusCode returned by a middleware
StatusOnly(status) == [status |-> status, code |-> "", message |-> ""]

\* a success response of a handler
Success(status) == [status |-> status, code |-> "OK", message |-> ""]

\* a request whose future was dropped gets no response
Cancelled == [status |-> 0, code |-> "Cancelled", message |-> ""]

\* the connection of a task that panicked gets no response
PanicResp == [status |-> 0, code |-> "Panic", message |-> "No tenant context set"]

OverflowPanicResp ==
    [status |-> 0, code |-> "Panic", message |-> "attempt to multiply with overflow"]

(***************************************************************************)
(* The store: the tables the repositories query.                           *)
(***************************************************************************)
\* Max0 without the clamp
Max0Unclamped(x) == x

\* i32::max(x, 0)
Max0(x) == IF x > 0 THEN x ELSE 0

EmptyStore ==
    [tenant_monitors |-> {}, tenant_networks |-> {}, tenant_triggers |-> {},
     resource_usage |-> [t \in Tenants |-> None]]

\* MonitorCount without WHERE tenant_id = $1
MonitorCountAllTenants(d, tenant_id) == Cardinality(d.tenant_monitors)

\* SELECT COUNT(*) FROM tenant_monitors WHERE tenant_id = $1
MonitorCount(d, tenant_id) ==
    Cardinality({m \in d.tenant_monitors : m.tenant_id = tenant_id})

NetworkCount(d, tenant_id) ==
    Cardinality({n \in d.tenant_networks : n.tenant_id = tenant_id})

TriggerCount(d, tenant_id) ==
    Cardinality({g \in d.tenant_triggers : g.tenant_id = tenant_id})

(***************************************************************************)
(* repositories/tenant.rs                                                  *)
(***************************************************************************)
\* get(tenant_id): the row, or TenantNotFound
TenantGet(tenant_id) ==
    IF tenant_id \in DOMAIN tenants THEN Ok(tenants[tenant_id])
    ELSE Err(Repository("TenantNotFound"))

\* get_by_slug(slug): the rows of table tenants with that slug
get_by_slug(slug) == {t \in DOMAIN tenants : tenants[t].slug = slug}

\* get_user_tenants(user_id): the (tenant, role) pairs of the user's
\* memberships in active tenants
get_user_tenants(user_id) ==
    {<<m.tenant_id, m.role>> : m \in
        {x \in tenant_memberships : x.user_id = user_id /\ tenants[x.tenant_id].is_active}}

\* the range of i32, the type of the quotas, the counts and the differences
i32_MAX == 2147483647
i32_MIN == -i32_MAX - 1

\* x + y and x - y in i32 as a release build computes them (wrapping), and
\* whether a debug build panics on them (overflow checks)
AddOverflows(x, y) == IF y >= 0 THEN x > i32_MAX - y ELSE x < i32_MIN - y

Add32(x, y) ==
    IF y >= 0 /\ x > i32_MAX - y THEN (x - i32_MAX - 1) + (y - i32_MAX - 1)
    ELSE IF y < 0 /\ x < i32_MIN - y THEN (x + i32_MAX + 1) + (y + i32_MAX + 1)
    ELSE x + y

\* y is a count or a usage, never negative
SubOverflows(x, y) == x < i32_MIN + y

Sub32(x, y) == IF x < i32_MIN + y THEN ((x + i32_MAX) + 1 - y) + i32_MAX + 1 ELSE x - y

\* x * n in i32 for a count n, by repeated addition
RECURSIVE Mul32(_, _)
Mul32(x, n) == IF n = 0 THEN 0 ELSE Add32(Mul32(x, n - 1), x)

RECURSIVE MulOverflows(_, _)
MulOverflows(x, n) ==
    n > 0 /\ (MulOverflows(x, n - 1) \/ AddOverflows(Mul32(x, n - 1), x))

\* let available = AvailableResources { .. }: each field (quota - usage).max(0)
AvailableResources(quotas, usage) ==
    [monitors |-> Max0(Sub32(quotas.max_monitors, usage.monitors_count)),
     networks |-> Max0(Sub32(quotas.max_networks, usage.networks_count)),
     triggers |-> Max0(Sub32(Mul32(quotas.max_triggers_per_monitor, usage.monitors_count),
                             usage.triggers_count)),
     rpc_requests_per_minute |-> Max0(Sub32(quotas.max_rpc_requests_per_minute,
                                            usage.rpc_requests_last_minute)),
     storage_mb |-> Max0(Sub32(quotas.max_storage_mb, usage.storage_mb_used))]

\* an operation of that computation overflows i32
AvailableOverflows(quotas, usage) ==
    \/ SubOverflows(quotas.max_monitors, usage.monitors_count)
    \/ SubOverflows(quotas.max_networks, usage.networks_count)
    \/ MulOverflows(quotas.max_triggers_per_monitor, usage.monitors_count)
    \/ SubOverflows(Mul32(quotas.max_triggers_per_monitor, usage.monitors_count),
                    usage.triggers_count)
    \/ SubOverflows(quotas.max_rpc_requests_per_minute, usage.rpc_requests_last_minute)
    \/ SubOverflows(quotas.max_storage_mb, usage.storage_mb_used)

\* the panic of a build with overflow checks
OverflowPanic == <<"Panic", "attempt to multiply with overflow">>

\* get_quota_status(tenant_id): the outcomes.  The storage row is read with
\* fetch_one, which fails with RowNotFound when the tenant has no storage
\* record today; no row of rpc usage is ever written.  On an i32 overflow a
\* build with overflow checks panics and one without computes the wrapped value.
get_quota_status(d, tenant_id) ==
    IF ~TenantGet(tenant_id).ok THEN {TenantGet(tenant_id)}
    ELSE IF d.resource_usage[tenant_id] = None THEN {Err(Repository("Database"))}
    ELSE
      LET tenant == tenants[tenant_id]
          quotas == [max_monitors |-> tenant.max_monitors,
                     max_networks |-> tenant.max_networks,
                     max_triggers_per_monitor |-> tenant.max_triggers_per_monitor,
                     max_rpc_requests_per_minute |-> tenant.max_rpc_requests_per_minute,
                     max_storage_mb |-> tenant.max_storage_mb]
          usage == [monitors_count |-> MonitorCount(d, tenant_id),
                    networks_count |-> NetworkCount(d, tenant_id),
                    triggers_count |-> TriggerCount(d, tenant_id),
                    rpc_requests_last_minute |-> 0,
                    storage_mb_used |-> d.resource_usage[tenant_id][1]]
      IN  IF AvailableOverflows(quotas, usage)
          THEN {Err(OverflowPanic),
                Ok([tenant_id |-> tenant_id, quotas |-> quotas, usage |-> usage,
                    available |-> AvailableResources(quotas, usage)])}
          ELSE {Ok([tenant_id |-> tenant_id, quotas |-> quotas, usage |-> usage,
                    available |-> AvailableResources(quotas, usage)])}

(***************************************************************************)
(* models/resource_quota.rs                                                *)
(***************************************************************************)
can_create_monitor(status) == status.available.monitors > 0

can_create_network(status) == status.available.networks > 0

can_create_trigger(status) == status.available.triggers > 0

(***************************************************************************)
(* repositories/monitor.rs: every query filters by current_tenant_id().    *)
(* Each operator is one SQL statement on store d, run by task r.           *)
(***************************************************************************)
MonitorRow(id, tenant_id, monitor_id, network_id, name) ==
    [id |-> id, tenant_id |-> tenant_id, monitor_id |-> monitor_id,
     network_id |-> network_id, name |-> name]

\* MonitorSelect without the tenant filter
MonitorSelectAnyTenant(d, r, monitor_id) ==
    {m \in d.tenant_monitors : m.monitor_id = monitor_id}

\* SELECT * FROM tenant_monitors WHERE tenant_id = $1 AND monitor_id = $2
MonitorSelect(d, r, monitor_id) ==
    {m \in d.tenant_monitors :
        m.tenant_id = current_tenant_id(r) /\ m.monitor_id = monitor_id}

\* get(monitor_id)
MonitorGet(d, r, monitor_id) ==
    IF MonitorSelect(d, r, monitor_id) = {} THEN Err(Repository("ResourceNotFound"))
    ELSE Ok(MonitorSelect(d, r, monitor_id))

\* list(limit, offset) with the default page, which holds every row of the model
MonitorList(d, r) ==
    Ok({m \in d.tenant_monitors : m.tenant_id = current_tenant_id(r)})

\* MonitorCheckQuota with <= for <
MonitorCheckQuotaOffByOne(d, r) ==
    IF current_tenant_id(r) \notin DOMAIN tenants THEN Err(Repository("TenantNotFound"))
    ELSE Ok(MonitorCount(d, current_tenant_id(r))
              <= tenants[current_tenant_id(r)].max_monitors)

\* check_quota(): current_count < max_monitors, or TenantNotFound
MonitorCheckQuota(d, r) ==
    IF current_tenant_id(r) \notin DOMAIN tenants THEN Err(Repository("TenantNotFound"))
    ELSE Ok(MonitorCount(d, current_tenant_id(r))
              < tenants[current_tenant_id(r)].max_monitors)

\* the id the database generates for a new row of (tenant_id, monitor_id)
NewMonitorId(d, tenant_id, monitor_id) ==
    <<tenant_id, monitor_id,
      Cardinality({m \in d.tenant_monitors :
                     m.tenant_id = tenant_id /\ m.monitor_id = monitor_id}) + 1>>

\* INSERT INTO tenant_monitors (tenant_id, ...) VALUES (current_tenant_id(), ...)
MonitorInsert(d, r, request) ==
    [d EXCEPT !.tenant_monitors = @ \cup
        {MonitorRow(NewMonitorId(d, current_tenant_id(r), request.monitor_id),
                    current_tenant_id(r), request.monitor_id,
                    request.network_id, request.name)}]

\* UPDATE tenant_monitors SET name = COALESCE($3, name) WHERE tenant_id = $1 AND monitor_id = $2
MonitorUpdate(d, r, monitor_id, name) ==
    [d EXCEPT !.tenant_monitors =
        {IF m \in MonitorSelect(d, r, monitor_id) THEN [m EXCEPT !.name = name] ELSE m
            : m \in @}]

\* DELETE FROM tenant_monitors WHERE tenant_id = $1 AND monitor_id = $2
MonitorDelete(d, r, monitor_id) ==
    [d EXCEPT !.tenant_monitors = @ \ MonitorSelect(d, r, monitor_id)]

(***************************************************************************)
(* repositories/network.rs and repositories/trigger.rs, and each method of *)
(* the three repositories as a whole: its result and the store it leaves.  *)
(***************************************************************************)
NetworkRow(id, tenant_id, network_id, name) ==
    [id |-> id, tenant_id |-> tenant_id, network_id |-> network_id, name |-> name]

TriggerRow(id, tenant_id, trigger_id, monitor_id, name) ==
    [id |-> id, tenant_id |-> tenant_id, trigger_id |-> trigger_id,
     monitor_id |-> monitor_id, name |-> name]

\* SELECT * FROM tenant_networks WHERE tenant_id = $1 AND network_id = $2
NetworkSelect(d, r, network_id) ==
    {n \in d.tenant_networks :
        n.tenant_id = current_tenant_id(r) /\ n.network_id = network_id}

\* SELECT * FROM tenant_triggers WHERE tenant_id = $1 AND trigger_id = $2
TriggerSelect(d, r, trigger_id) ==
    {g \in d.tenant_triggers :
        g.tenant_id = current_tenant_id(r) /\ g.trigger_id = trigger_id}

\* network check_quota(): current_count < max_networks
NetworkCheckQuota(d, r) ==
    IF current_tenant_id(r) \notin DOMAIN tenants THEN Err(Repository("TenantNotFound"))
    ELSE Ok(NetworkCount(d, current_tenant_id(r))
              < tenants[current_tenant_id(r)].max_networks)

\* trigger check_quota(monitor_id): the monitor's triggers < max_triggers_per_monitor
TriggerCheckQuota(d, r, monitor_id) ==
    IF current_tenant_id(r) \notin DOMAIN tenants THEN Err(Repository("TenantNotFound"))
    ELSE Ok(Cardinality({g \in d.tenant_triggers :
                            g.tenant_id = current_tenant_id(r) /\ g.monitor_id = monitor_id})
              < tenants[current_tenant_id(r)].max_triggers_per_monitor)

\* the outcome of a repository method: its result and the store afterwards
Out(res, d) == [res |-> res, db |-> d]

\* monitor create(request)
MonitorCreate(d, r, request) ==
    LET quota == MonitorCheckQuota(d, r)
        row == MonitorRow(NewMonitorId(d, current_tenant_id(r), request.monitor_id),
                          current_tenant_id(r), request.monitor_id,
                          request.network_id, request.name)
    IN  IF ~quota.ok THEN Out(quota, d)
        ELSE IF ~quota.val THEN Out(Err(Repository("QuotaExceeded")), d)
        ELSE IF MonitorSelect(d, r, request.monitor_id) # {}
        THEN Out(Err(Repository("AlreadyExists")), d)
        ELSE Out(Ok({row}), MonitorInsert(d, r, request))

\* monitor update(monitor_id, request): the rows the UPDATE returns
MonitorUpdated(d, r, monitor_id, name) ==
    IF MonitorSelect(d, r, monitor_id) = {}
    THEN Out(Err(Repository("ResourceNotFound")), d)
    ELSE Out(Ok({[m EXCEPT !.name = name] : m \in MonitorSelect(d, r, monitor_id)}),
             MonitorUpdate(d, r, monitor_id, name))

\* monitor delete(monitor_id)
MonitorDeleted(d, r, monitor_id) ==
    IF MonitorSelect(d, r, monitor_id) = {}
    THEN Out(Err(Repository("ResourceNotFound")), d)
    ELSE Out(Ok({}), MonitorDelete(d, r, monitor_id))

\* network create(request)
NetworkCreate(d, r, request) ==
    LET quota == NetworkCheckQuota(d, r)
        row == NetworkRow(<<current_tenant_id(r), request.network_id, 1>>,
                          current_tenant_id(r), request.network_id, request.name)
    IN  IF ~quota.ok THEN Out(quota, d)
        ELSE IF ~quota.val THEN Out(Err(Repository("QuotaExceeded")), d)
        ELSE IF NetworkSelect(d, r, request.network_id) # {}
        THEN Out(Err(Repository("AlreadyExists")), d)
        ELSE Out(Ok({row}), [d EXCEPT !.tenant_networks = @ \cup {row}])

\* network get(network_id)
NetworkGet(d, r, network_id) ==
    IF NetworkSelect(d, r, network_id) = {} THEN Err(Repository("ResourceNotFound"))
    ELSE Ok(NetworkSelect(d, r, network_id))

\* network list(limit, offset)
NetworkList(d, r) ==
    Ok({n \in d.tenant_networks : n.tenant_id = current_tenant_id(r)})

\* network delete(network_id): refused while a monitor of the tenant uses it
NetworkDeleted(d, r, network_id) ==
    LET monitors_using ==
            {m \in d.tenant_monitors :
                /\ m.tenant_id = current_tenant_id(r)
                /\ \E n \in NetworkSelect(d, r, network_id) : m.network_id = n.id}
    IN  IF monitors_using # {} THEN Out(Err(Repository("ValidationError")), d)
        ELSE IF NetworkSelect(d, r, network_id) = {}
        THEN Out(Err(Repository("ResourceNotFound")), d)
        ELSE Out(Ok({}), [d EXCEPT !.tenant_networks = @ \ NetworkSelect(d, r, network_id)])

\* trigger create(request)
TriggerCreate(d, r, request) ==
    LET quota == TriggerCheckQuota(d, r, request.monitor_id)
        monitor_exists == {m \in d.tenant_monitors :
                              m.tenant_id = current_tenant_id(r) /\ m.id = request.monitor_id}
        row == TriggerRow(<<current_tenant_id(r), request.trigger_id, 1>>,
                          current_tenant_id(r), request.trigger_id,
                          request.monitor_id, request.name)
    IN  IF ~quota.ok THEN Out(quota, d)
        ELSE IF ~quota.val THEN Out(Err(Repository("QuotaExceeded")), d)
        ELSE IF monitor_exists = {} THEN Out(Err(Repository("ResourceNotFound")), d)
        ELSE IF TriggerSelect(d, r, request.trigger_id) # {}
        THEN Out(Err(Repository("AlreadyExists")), d)
        ELSE Out(Ok({row}), [d EXCEPT !.tenant_triggers = @ \cup {row}])

\* trigger get(trigger_id)
TriggerGet(d, r, trigger_id) ==
    IF TriggerSelect(d, r, trigger_id) = {} THEN Err(Repository("ResourceNotFound"))
    ELSE Ok(TriggerSelect(d, r, trigger_id))

\* trigger get_by_monitor(monitor_id)
TriggerGetByMonitor(d, r, monitor_id) ==
    Ok({g \in d.tenant_triggers :
           g.tenant_id = current_tenant_id(r) /\ g.monitor_id = monitor_id})

\* trigger delete(trigger_id)
TriggerDeleted(d, r, trigger_id) ==
    IF TriggerSelect(d, r, trigger_id) = {}
    THEN Out(Err(Repository("ResourceNotFound")), d)
    ELSE Out(Ok({}), [d EXCEPT !.tenant_triggers = @ \ TriggerSelect(d, r, trigger_id)])

(***************************************************************************)
(* services/: the service methods, each the whole method against store d   *)
(* in the scope of task r.  An outcome is the result, the store the method *)
(* leaves and the entries it wrote to the audit log.                       *)
(***************************************************************************)
Internal == <<"Internal">>

\* CreateAuditLogRequest: the tenant, the principal and the action
AuditEntry(context, action) ==
    [tenant_id |-> context.tenant_id, user_id |-> context.user.id,
     api_key_id |-> context.api_key_id, action |-> action]

\* audit_service.log(entry): the INSERT INTO audit_logs, Internal when it fails
audit_service_log(entry, fault) ==
    IF fault = "audit_log" THEN Err(Internal) ELSE Ok({entry})

SvcOut(res, d, audit) == [res |-> res, db |-> d, audit |-> audit]

\* `repo call .await?` then `audit_service.log(..).await?` then Ok(..)
Logged(out, context, action, fault) ==
    LET logged == audit_service_log(AuditEntry(context, action), fault)
    IN  IF ~out.res.ok THEN SvcOut(out.res, out.db, {})
        ELSE IF ~logged.ok THEN SvcOut(logged, out.db, {})
        ELSE SvcOut(out.res, out.db, logged.val)

\* MonitorService::create_monitor
MonitorServiceCreate(d, r, request, fault) ==
    LET context == current_tenant_context(r) IN
    IF ~can_write(context) THEN {SvcOut(Err(AccessDenied), d, {})}
    ELSE {IF ~quota_status.ok THEN SvcOut(quota_status, d, {})
          ELSE IF ~can_create_monitor(quota_status.val)
          THEN SvcOut(Err(QuotaExceeded), d, {})
          ELSE Logged(MonitorCreate(d, r, request), context, "MonitorCreated", fault)
            : quota_status \in get_quota_status(d, context.tenant_id)}

\* MonitorService::update_monitor
MonitorServiceUpdate(d, r, monitor_id, name, fault) ==
    LET context == current_tenant_context(r) IN
    IF ~can_write(context) THEN {SvcOut(Err(AccessDenied), d, {})}
    ELSE IF ~MonitorGet(d, r, monitor_id).ok
    THEN {SvcOut(MonitorGet(d, r, monitor_id), d, {})}
    ELSE {Logged(MonitorUpdated(d, r, monitor_id, name), context, "MonitorUpdated", fault)}

\* MonitorService::delete_monitor
MonitorServiceDelete(d, r, monitor_id, fault) ==
    LET context == current_tenant_context(r) IN
    IF ~can_write(context) THEN {SvcOut(Err(AccessDenied), d, {})}
    ELSE IF ~MonitorGet(d, r, monitor_id).ok
    THEN {SvcOut(MonitorGet(d, r, monitor_id), d, {})}
    ELSE {Logged(MonitorDeleted(d, r, monitor_id), context, "MonitorDeleted", fault)}

\* NetworkService::create_network, for a valid blockchain type
NetworkServiceCreate(d, r, request, fault) ==
    LET context == current_tenant_context(r) IN
    IF ~can_write(context) THEN {SvcOut(Err(AccessDenied), d, {})}
    ELSE {IF ~quota_status.ok THEN SvcOut(quota_status, d, {})
          ELSE IF ~can_create_network(quota_status.val)
          THEN SvcOut(Err(QuotaExceeded), d, {})
          ELSE Logged(NetworkCreate(d, r, request), context, "NetworkCreated", fault)
            : quota_status \in get_quota_status(d, context.tenant_id)}

\* NetworkService::delete_network
NetworkServiceDelete(d, r, network_id, fault) ==
    LET context == current_tenant_context(r) IN
    IF ~can_write(context) THEN {SvcOut(Err(AccessDenied), d, {})}
    ELSE IF ~NetworkGet(d, r, network_id).ok
    THEN {SvcOut(NetworkGet(d, r, network_id), d, {})}
    ELSE {Logged(NetworkDeleted(d, r, network_id), context, "NetworkDeleted", fault)}

\* monitor get_by_uuid(id)
MonitorGetByUuid(d, r, id) ==
    LET rows == {m \in d.tenant_monitors :
                    m.tenant_id = current_tenant_id(r) /\ m.id = id}
    IN  IF rows = {} THEN Err(Repository("ResourceNotFound")) ELSE Ok(rows)

\* TriggerService::create_trigger, for a valid trigger type
TriggerServiceCreate(d, r, request, fault) ==
    LET context == current_tenant_context(r)
        quota == TriggerCheckQuota(d, r, request.monitor_id)
    IN
    IF ~can_write(context) THEN {SvcOut(Err(AccessDenied), d, {})}
    ELSE IF ~MonitorGetByUuid(d, r, request.monitor_id).ok
    THEN {SvcOut(MonitorGetByUuid(d, r, request.monitor_id), d, {})}
    ELSE {IF ~quota_status.ok THEN SvcOut(quota_status, d, {})
          ELSE IF ~quota.ok THEN SvcOut(quota, d, {})
          ELSE IF ~quota.val THEN SvcOut(Err(QuotaExceeded), d, {})
          ELSE Logged(TriggerCreate(d, r, request), context, "TriggerCreated", fault)
            : quota_status \in get_quota_status(d, context.tenant_id)}

\* TriggerService::delete_trigger
TriggerServiceDelete(d, r, trigger_id, fault) ==
    LET context == current_tenant_context(r) IN
    IF ~can_write(context) THEN {SvcOut(Err(AccessDenied), d, {})}
    ELSE IF ~TriggerGet(d, r, trigger_id).ok
    THEN {SvcOut(TriggerGet(d, r, trigger_id), d, {})}
    ELSE {Logged(TriggerDeleted(d, r, trigger_id), context, "TriggerDeleted", fault)}

(***************************************************************************)
(* api/middleware.rs: credential resolution.  Each operator yields the set *)
(* of outcomes the queries allow: Ok(context) or Err(status).              *)
(***************************************************************************)
starts_with(token, prefix) == Len(token) >= 1 /\ token[1] = prefix

strip_prefix(token, prefix) == Tail(token)

\* the persistence call of credential resolution that fails for a request
NoFault == "none"
Faults == {NoFault, "get_by_slug", "get_user_tenants", "key_lookup", "last_used",
           "tenant_fetch", "audit_log"}

\* authenticate_jwt answering a missing membership like a missing tenant
authenticate_jwt_hiding(tenant_slug, token, fault) ==
    LET claims == verify_jwt(token) IN
    IF ~claims.ok THEN {Err(401)}
    ELSE IF fault = "get_by_slug" \/ get_by_slug(tenant_slug) = {} THEN {Err(404)}
    ELSE IF fault = "get_user_tenants" THEN {Err(500)}
    ELSE {LET membership == {p \in get_user_tenants(claims.sub) : p[1] = tenant} IN
          IF membership = {} THEN Err(404)
          ELSE Ok(with_user(tenant, [id |-> claims.sub,
                                     role |-> (CHOOSE p \in membership : TRUE)[2]]))
            : tenant \in get_by_slug(tenant_slug)}

authenticate_jwt(tenant_slug, token, fault) ==
    LET claims == verify_jwt(token) IN
    IF ~claims.ok THEN {Err(401)}
    ELSE IF fault = "get_by_slug" \/ get_by_slug(tenant_slug) = {} THEN {Err(404)}
    ELSE IF fault = "get_user_tenants" THEN {Err(500)}
    ELSE {LET membership == {p \in get_user_tenants(claims.sub) : p[1] = tenant} IN
          IF membership = {} THEN Err(403)
          ELSE Ok(with_user(tenant, [id |-> claims.sub,
                                     role |-> (CHOOSE p \in membership : TRUE)[2]]))
            : tenant \in get_by_slug(tenant_slug)}

\* api_key_accepted without the expiry check
api_key_accepted_unexpiring(valid_key, fault) ==
    IF fault = "last_used" THEN Err(500)
    ELSE IF fault = "tenant_fetch" THEN Err(401)
    ELSE Ok(with_api_key(valid_key.tenant_id, valid_key.id))

\* what follows the key lookup for the record found: the expiry check, the
\* UPDATE of last_used_at, the tenant query, the context
api_key_accepted(valid_key, fault) ==
    IF valid_key.expires_at # None /\ valid_key.expires_at[1] < now THEN Err(401)
    ELSE IF fault = "last_used" THEN Err(500)
    ELSE IF fault = "tenant_fetch" THEN Err(401)
    ELSE Ok(with_api_key(valid_key.tenant_id, valid_key.id))

\* authenticate_api_key without the WHERE t.slug = $1 of its query
authenticate_api_key_any_tenant(tenant_slug, api_key, fault) ==
    LET key_without_prefix == strip_prefix(api_key, api_key_prefix)
        matching == {k \in api_keys :
                        k.is_active /\ verify_password(key_without_prefix, k.key_hash)}
    IN  IF fault = "key_lookup" THEN {Err(500)}
        ELSE IF matching = {} THEN {Err(401)}
        ELSE {api_key_accepted(valid_key, fault) : valid_key \in matching}

\* the key lookup without its AND ak.is_active = true
key_record_with_revoked(tenant_slug) ==
    {k \in api_keys : tenants[k.tenant_id].slug = tenant_slug}

\* SELECT .. FROM api_keys ak INNER JOIN tenants t ON ak.tenant_id = t.id
\* WHERE t.slug = $1 AND ak.is_active = true
key_record(tenant_slug) ==
    {k \in api_keys : tenants[k.tenant_id].slug = tenant_slug /\ k.is_active}

authenticate_api_key(tenant_slug, api_key, fault) ==
    LET key_without_prefix == strip_prefix(api_key, api_key_prefix)
        matching == {k \in key_record(tenant_slug) :
                        verify_password(key_without_prefix, k.key_hash)}
    IN  IF fault = "key_lookup" THEN {Err(500)}
        ELSE IF matching = {} THEN {Err(401)}
        ELSE {api_key_accepted(valid_key, fault) : valid_key \in matching}

tenant_auth_middleware(tenant_slug, token, fault) ==
    IF starts_with(token, api_key_prefix)
    THEN authenticate_api_key(tenant_slug, token, fault)
    ELSE authenticate_jwt(tenant_slug, token, fault)

(***************************************************************************)
(* Request tasks.                                                          *)
(***************************************************************************)
NoReq == [entry |-> "None", slug |-> "", cred |-> <<>>, op |-> "None", monitor_id |-> "",
          network_id |-> <<>>, name |-> "", fault |-> NoFault]
NoLocal == [svc |-> None, repo |-> None, created |-> FALSE, seen |-> {},
            call |-> None, audit |-> {}, at |-> None, issued |-> None]

InFlight(r) == pc[r] \notin {"idle", "done"}

\* the request's future completed with a response: the scope is left
Complete(r, response) ==
    /\ pc' = [pc EXCEPT ![r] = "done"]
    /\ resp' = [resp EXCEPT ![r] = response]
    /\ TENANT_CONTEXT' = scope_exit(r)

\* the tenant the task acts for, and that tenant's own copy of the store
Ten(r) == TENANT_CONTEXT[r].tenant_id
Own(r) == solo[Ten(r)].store

\* the task observed x on the store and y on its tenant's own copy
Observe(r, x, y) == agree' = [agree EXCEPT ![r] = @ /\ x = y]

\* two results are the same Ok value or the same error
Same(x, y) == IF x.ok # y.ok THEN FALSE ELSE x.val = y.val

\* two sets of outcomes hold the same results
SameOutcomes(X, Y) ==
    /\ \A x \in X : \E y \in Y : Same(x, y)
    /\ \A y \in Y : \E x \in X : Same(x, y)

\* a write w(d) is applied to the store and to the tenant's own copy
Write(r, newdb, newown) ==
    /\ db' = newdb
    /\ solo' = [solo EXCEPT ![Ten(r)].store = newown]

(***************************************************************************)
(* Entry points.                                                           *)
(***************************************************************************)
\* api/routes.rs create_router: the tenant routes carry no middleware layer,
\* the handler is called with no scope bound
create_router(r, inputs) ==
    /\ pc[r] = "idle"
    /\ \E i \in inputs :
        /\ req' = [req EXCEPT ![r] = [i EXCEPT !.entry = "create_router"]]
        /\ pc' = [pc EXCEPT ![r] = i.op]
    /\ UNCHANGED <<tenants, tenant_memberships, api_keys, db, TENANT_CONTEXT,
                   RATE_LIMITS, admitted, now, local, resp, solo, agree>>

\* api/middleware.rs tenant_auth_middleware: resolve the credential, then run
\* the rest of the request (first: the next layer or the handler) in scope
TenantAuth(r, inputs, first) ==
    /\ pc[r] = "idle"
    /\ \E i \in inputs : \E out \in tenant_auth_middleware(i.slug, i.cred, i.fault) :
        /\ req' = [req EXCEPT ![r] = [i EXCEPT !.entry = "tenant_auth_middleware"]]
        /\ IF out.ok
           THEN /\ TENANT_CONTEXT' = with_tenant_context(r, out.val)
                /\ pc' = [pc EXCEPT ![r] = IF first = "handler" THEN i.op ELSE first]
                /\ UNCHANGED resp
           ELSE /\ pc' = [pc EXCEPT ![r] = "done"]
                /\ resp' = [resp EXCEPT ![r] = StatusOnly(out.val)]
                /\ UNCHANGED TENANT_CONTEXT
    /\ UNCHANGED <<tenants, tenant_memberships, api_keys, db, RATE_LIMITS, admitted, now,
                   local, solo, agree>>

\* utils/tenant_context.rs tenant_context_middleware: binds a dummy context
tenant_context_middleware(r, inputs) ==
    /\ pc[r] = "idle"
    /\ \E i \in inputs :
        /\ req' = [req EXCEPT ![r] = [i EXCEPT !.entry = "tenant_context_middleware"]]
        /\ pc' = [pc EXCEPT ![r] = i.op]
    /\ TENANT_CONTEXT' = with_tenant_context(r, TenantContextNew(DummyTenant))
    /\ UNCHANGED <<tenants, tenant_memberships, api_keys, db, RATE_LIMITS, admitted, now,
                   local, resp, solo, agree>>

(***************************************************************************)
(* services/monitor_service.rs and the repository calls it awaits.         *)
(***************************************************************************)
\* create_monitor up to the quota check
create_monitor(r) ==
    /\ pc[r] = "create_monitor"
    /\ UNCHANGED <<tenants, tenant_memberships, api_keys, db, RATE_LIMITS, admitted, now, req, solo>>
    /\ LET context == current_tenant_context(r) IN
       IF context = Panic
       THEN Complete(r, PanicResp) /\ UNCHANGED <<local, agree>>
       ELSE IF ~can_write(context)
       THEN Complete(r, into_response(AccessDenied)) /\ UNCHANGED <<local, agree>>
       ELSE \E quota_status \in get_quota_status(db, context.tenant_id) :
                /\ Observe(r, TRUE, SameOutcomes(get_quota_status(db, context.tenant_id),
                                                 get_quota_status(Own(r), context.tenant_id)))
                /\ IF ~quota_status.ok
                   THEN /\ Complete(r, IF quota_status.val = OverflowPanic
                                       THEN OverflowPanicResp
                                       ELSE into_response(quota_status.val))
                        /\ UNCHANGED local
                   ELSE IF ~can_create_monitor(quota_status.val)
                   THEN Complete(r, into_response(QuotaExceeded)) /\ UNCHANGED local
                   ELSE /\ pc' = [pc EXCEPT ![r] = "repo_create"]
                        /\ local' = [local EXCEPT ![r].svc = Some(quota_status.val)]
                        /\ UNCHANGED <<resp, TENANT_CONTEXT>>

\* monitor_repo.create: check_quota
repo_create(r) ==
    /\ pc[r] = "repo_create"
    /\ UNCHANGED <<tenants, tenant_memberships, api_keys, db, RATE_LIMITS, admitted, now, req, solo>>
    /\ IF current_tenant_context(r) = Panic
       THEN Complete(r, PanicResp) /\ UNCHANGED <<local, agree>>
       ELSE LET quota == MonitorCheckQuota(db, r)
                own_quota == MonitorCheckQuota(Own(r), r)
            IN  /\ Observe(r, TRUE, Same(quota, own_quota))
                /\ IF ~quota.ok
                   THEN Complete(r, into_response(quota.val)) /\ UNCHANGED local
                   ELSE IF ~quota.val
                   THEN /\ Complete(r, into_response(Repository("QuotaExceeded")))
                        /\ UNCHANGED local
                   ELSE /\ pc' = [pc EXCEPT ![r] = "repo_exists"]
                        /\ local' = [local EXCEPT ![r].repo =
                              Some([count |-> MonitorCount(db, Ten(r)),
                                    max |-> tenants[Ten(r)].max_monitors])]
                        /\ UNCHANGED <<resp, TENANT_CONTEXT>>

\* monitor_repo.create: the monitor_id must not exist for this tenant
repo_exists(r) ==
    /\ pc[r] = "repo_exists"
    /\ UNCHANGED <<tenants, tenant_memberships, api_keys, db, RATE_LIMITS, admitted, now, req,
                   local, solo>>
    /\ LET existing == Cardinality(MonitorSelect(db, r, req[r].monitor_id))
           own_existing == Cardinality(MonitorSelect(Own(r), r, req[r].monitor_id))
       IN  /\ Observe(r, existing, own_existing)
           /\ IF existing > 0
              THEN Complete(r, into_response(Repository("AlreadyExists")))
              ELSE /\ pc' = [pc EXCEPT ![r] = "repo_insert"]
                   /\ UNCHANGED <<resp, TENANT_CONTEXT>>

\* monitor_repo.create: the INSERT.  When a row of the same (tenant_id,
\* monitor_id) was inserted meanwhile, a unique index rejects the statement
\* with a database error; without such an index a second row is stored.
repo_insert(r) ==
    /\ pc[r] = "repo_insert"
    /\ UNCHANGED <<tenants, tenant_memberships, api_keys, RATE_LIMITS, admitted, now, req, agree>>
    /\ \/ /\ MonitorSelect(db, r, req[r].monitor_id) # {}
          /\ Complete(r, into_response(Repository("Database")))
          /\ UNCHANGED <<db, solo, local>>
       \/ /\ Write(r, MonitorInsert(db, r, req[r]), MonitorInsert(Own(r), r, req[r]))
          /\ local' = [local EXCEPT ![r].created = TRUE]
          /\ pc' = [pc EXCEPT ![r] = "audit_log"]
          /\ UNCHANGED <<resp, TENANT_CONTEXT>>

\* audit_service.log(...).await? after the repository call, then Ok(..)
audit_log(r) ==
    /\ pc[r] = "audit_log"
    /\ UNCHANGED <<tenants, tenant_memberships, api_keys, db, RATE_LIMITS, admitted, now, req,
                   solo, agree>>
    /\ LET action == IF req[r].op = "create_monitor" THEN "MonitorCreated"
                     ELSE "MonitorDeleted"
           logged == audit_service_log(AuditEntry(TENANT_CONTEXT[r], action), req[r].fault)
       IN  IF ~logged.ok
           THEN Complete(r, into_response(logged.val)) /\ UNCHANGED local
           ELSE /\ local' = [local EXCEPT ![r].audit = logged.val]
                /\ Complete(r, Success(IF req[r].op = "create_monitor" THEN 201 ELSE 204))

\* get_monitor: monitor_repo.get(monitor_id)
get_monitor(r) ==
    /\ pc[r] = "get_monitor"
    /\ UNCHANGED <<tenants, tenant_memberships, api_keys, db, RATE_LIMITS, admitted, now, req,
                   local, solo>>
    /\ IF current_tenant_context(r) = Panic
       THEN Complete(r, PanicResp) /\ UNCHANGED agree
       ELSE LET monitor == MonitorGet(db, r, req[r].monitor_id)
                own_monitor == MonitorGet(Own(r), r, req[r].monitor_id)
            IN  /\ Observe(r, TRUE, Same(monitor, own_monitor))
                /\ Complete(r, IF monitor.ok THEN Success(200)
                               ELSE into_response(monitor.val))

\* delete_monitor up to monitor_repo.get(monitor_id)
delete_monitor(r) ==
    /\ pc[r] = "delete_monitor"
    /\ UNCHANGED <<tenants, tenant_memberships, api_keys, db, RATE_LIMITS, admitted, now, req,
                   local, solo>>
    /\ LET context == current_tenant_context(r) IN
       IF context = Panic
       THEN Complete(r, PanicResp) /\ UNCHANGED agree
       ELSE IF ~can_write(context)
       THEN Complete(r, into_response(AccessDenied)) /\ UNCHANGED agree
       ELSE LET monitor == MonitorGet(db, r, req[r].monitor_id)
                own_monitor == MonitorGet(Own(r), r, req[r].monitor_id)
            IN  /\ Observe(r, TRUE, Same(monitor, own_monitor))
                /\ IF ~monitor.ok
                   THEN Complete(r, into_response(monitor.val))
                   ELSE /\ pc' = [pc EXCEPT ![r] = "repo_delete"]
                        /\ UNCHANGED <<resp, TENANT_CONTEXT>>

\* monitor_repo.delete(monitor_id): the DELETE and its rows_affected
repo_delete(r) ==
    /\ pc[r] = "repo_delete"
    /\ UNCHANGED <<tenants, tenant_memberships, api_keys, RATE_LIMITS, admitted, now, req, local>>
    /\ LET rows == MonitorSelect(db, r, req[r].monitor_id)
           own_rows == MonitorSelect(Own(r), r, req[r].monitor_id)
       IN  /\ Observe(r, rows, own_rows)
           /\ Write(r, MonitorDelete(db, r, req[r].monitor_id),
                       MonitorDelete(Own(r), r, req[r].monitor_id))
           /\ IF rows = {}
              THEN Complete(r, into_response(Repository("ResourceNotFound")))
              ELSE /\ pc' = [pc EXCEPT ![r] = "audit_log"]
                   /\ UNCHANGED <<resp, TENANT_CONTEXT>>

(***************************************************************************)
(* api/middleware.rs rate_limit_middleware.                                *)
(***************************************************************************)
\* Duration::from_secs(60), the window in seconds
window_duration == 60

\* the clock has been advanced this many times (by a second or by a window)
Ticks == (now \div window_duration) + (now % window_duration)

\* the latest instant of the model
FarFuture == MaxClock * window_duration

\* ApiRateLimits of the tenant's quotas: requests per minute and burst size
\* for user traffic and for API-key traffic
api_rate_limits ==
    [requests_per_minute_user |-> 2, burst_size_user |-> 3,
     requests_per_minute_api_key |-> 1, burst_size_api_key |-> 2]

\* the context bound for task r, or None outside a scope
current_tenant_context_option(r) ==
    IF TENANT_CONTEXT[r] = NoContext THEN None ELSE Some(TENANT_CONTEXT[r])

RateLimitEntry(count, window_start) == [count |-> count, window_start |-> window_start]

\* the pair (requests_per_minute, burst_size) for the kind of principal
requests_per_minute(context) ==
    IF context.user # NoUser THEN api_rate_limits.requests_per_minute_user
    ELSE api_rate_limits.requests_per_minute_api_key

burst_size(context) ==
    IF context.user # NoUser THEN api_rate_limits.burst_size_user
    ELSE api_rate_limits.burst_size_api_key

\* now.duration_since(entry.window_start) > window_duration for the instant
\* `at` the request read from the clock; an instant before window_start gives
\* a zero duration
window_expired_at(entry, at) == at - entry.window_start > window_duration

\* the window of the entry is over at the instant now
window_expired(entry) == window_expired_at(entry, now)

\* should_allow_at whose increment is lost
should_allow_at_lost_update(entry, context, at) ==
    IF entry = None
    THEN [allow |-> TRUE, entry |-> Some(RateLimitEntry(1, at))]
    ELSE IF window_expired_at(entry[1], at)
    THEN [allow |-> TRUE, entry |-> Some(RateLimitEntry(1, at))]
    ELSE [allow |-> entry[1].count < burst_size(context), entry |-> entry]

\* the match on rate_limits.get_mut(&tenant_id) for a request that read the
\* instant `at`: the decision and the entry the map holds for the tenant
\* afterwards
should_allow_at(entry, context, at) ==
    IF entry = None
    THEN [allow |-> TRUE, entry |-> Some(RateLimitEntry(1, at))]
    ELSE IF window_expired_at(entry[1], at)
    THEN [allow |-> TRUE, entry |-> Some(RateLimitEntry(1, at))]
    ELSE IF entry[1].count < requests_per_minute(context)
    THEN [allow |-> TRUE,
          entry |-> Some(RateLimitEntry(entry[1].count + 1, entry[1].window_start))]
    ELSE [allow |-> entry[1].count < burst_size(context), entry |-> entry]

\* should_allow that keeps counting in an expired window
should_allow_no_reset(entry, context) ==
    IF entry = None
    THEN [allow |-> TRUE, entry |-> Some(RateLimitEntry(1, now))]
    ELSE IF entry[1].count < requests_per_minute(context)
    THEN [allow |-> TRUE,
          entry |-> Some(RateLimitEntry(entry[1].count + 1, entry[1].window_start))]
    ELSE [allow |-> entry[1].count < burst_size(context), entry |-> entry]

\* the match when the lock is taken at the instant the clock was read
should_allow(entry, context) == should_allow_at(entry, context, now)

\* the admissions of the tenant's current window after a decision
Admitted(n, entry, decision) ==
    IF entry = None \/ decision.entry[1].window_start # entry[1].window_start THEN 1
    ELSE IF ~decision.allow THEN n
    ELSE IF n < MaxAdmitted THEN n + 1 ELSE n

\* the body of `if let Some(context)`: the decision under the RATE_LIMITS
\* lock, then next.run(req) or 429
rate_limited(r, context) ==
    LET tenant_id == context.tenant_id
        decision == should_allow(RATE_LIMITS[tenant_id], context)
        own_decision == should_allow(solo[tenant_id].limits, context)
    IN  /\ RATE_LIMITS' = [RATE_LIMITS EXCEPT ![tenant_id] = decision.entry]
        /\ solo' = [solo EXCEPT ![tenant_id].limits = own_decision.entry]
        /\ Observe(r, decision.allow, own_decision.allow)
        /\ IF decision.allow
           THEN /\ pc' = [pc EXCEPT ![r] = req[r].op]
                /\ UNCHANGED <<resp, TENANT_CONTEXT>>
           ELSE Complete(r, StatusOnly(429))

\* rate_limit_middleware charging requests without a context to a default tenant
rate_limit_middleware_default_tenant(r) ==
    /\ pc[r] = "rate_limit"
    /\ UNCHANGED <<tenants, tenant_memberships, api_keys, db, now, req, local>>
    /\ LET context == current_tenant_context_option(r) IN
       IF context = None THEN rate_limited(r, TenantContextNew(DummyTenant))
       ELSE rate_limited(r, context[1])

\* the middleware: next.run(req) directly when no context is bound
rate_limit_middleware(r) ==
    /\ pc[r] = "rate_limit"
    /\ UNCHANGED <<tenants, tenant_memberships, api_keys, db, now, req, local>>
    /\ LET context == current_tenant_context_option(r) IN
       IF context = None
       THEN /\ pc' = [pc EXCEPT ![r] = req[r].op]
            /\ UNCHANGED <<RATE_LIMITS, solo, agree, resp, TENANT_CONTEXT>>
       ELSE rate_limited(r, context[1])

\* the rate limiter's step with the admissions of the window counted
RateLimitCounted(r) ==
    /\ rate_limit_middleware(r)
    /\ LET context == current_tenant_context_option(r) IN
       IF context = None THEN UNCHANGED admitted
       ELSE admitted' = [admitted EXCEPT ![context[1].tenant_id] =
                Admitted(@, RATE_LIMITS[context[1].tenant_id],
                         should_allow(RATE_LIMITS[context[1].tenant_id], context[1]))]

\* the rate limiter's step, admissions not counted
RateLimit(r) == rate_limit_middleware(r) /\ UNCHANGED admitted

\* rate_limit_middleware up to `let now = Instant::now()`: the request then
\* waits for the RATE_LIMITS lock
rate_limit_now(r) ==
    /\ pc[r] = "rate_limit_now"
    /\ TENANT_CONTEXT[r] # NoContext
    /\ local' = [local EXCEPT ![r].at = Some(now)]
    /\ pc' = [pc EXCEPT ![r] = "rate_limit_lock"]
    /\ UNCHANGED <<tenants, tenant_memberships, api_keys, db, TENANT_CONTEXT, RATE_LIMITS,
                   admitted, now, req, resp, solo, agree>>

\* rate_limit_middleware from RATE_LIMITS.lock().await to the end of the
\* block that holds the guard: the match on the tenant's entry with the
\* instant read before, then next.run(req) or 429
rate_limit_locked(r) ==
    /\ pc[r] = "rate_limit_lock"
    /\ LET context == TENANT_CONTEXT[r]
           tenant_id == context.tenant_id
           decision == should_allow_at(RATE_LIMITS[tenant_id], context, local[r].at[1])
       IN  /\ RATE_LIMITS' = [RATE_LIMITS EXCEPT ![tenant_id] = decision.entry]
           /\ admitted' = [admitted EXCEPT ![tenant_id] =
                              Admitted(@, RATE_LIMITS[tenant_id], decision)]
           /\ IF decision.allow
              THEN /\ pc' = [pc EXCEPT ![r] = req[r].op]
                   /\ UNCHANGED <<resp, TENANT_CONTEXT>>
              ELSE Complete(r, StatusOnly(429))
    /\ UNCHANGED <<tenants, tenant_memberships, api_keys, db, now, req, local, solo, agree>>

(***************************************************************************)
(* api/auth.rs: the API-key handlers.                                      *)
(***************************************************************************)
\* a row of api_keys: key_hash is hash_password of the key as generated
ApiKeyRow(id, tenant_id, secret, is_active, expires_at) ==
    [id |-> id, tenant_id |-> tenant_id, key_hash |-> hash_password(<<secret>>),
     is_active |-> is_active, expires_at |-> expires_at]

\* the ids the store gives to new rows of api_keys, and generate_api_key
\* for the row: a fresh random string
NewKeyIds == {"k5"}

generate_api_key(id) == IF id = "k5" THEN "s5" ELSE "s6"

\* format!("{}_{}", api_key_prefix, api_key): the key field of the response
CreateApiKeyResponseKey(api_key) == <<api_key_prefix, "_", api_key>>

\* ApiError::NotFound
ApiNotFound == [status |-> 404, code |-> "NOT_FOUND", message |-> "Not found"]

create_api_key(r) ==
    /\ pc[r] = "create_api_key"
    /\ UNCHANGED <<tenants, tenant_memberships, db, RATE_LIMITS, admitted, now, req,
                   solo, agree>>
    /\ LET context == current_tenant_context(r) IN
       IF context = Panic THEN Complete(r, PanicResp) /\ UNCHANGED <<api_keys, local>>
       ELSE IF ~can_manage(context)
       THEN Complete(r, into_response(AccessDenied)) /\ UNCHANGED <<api_keys, local>>
       ELSE IF get_by_slug(req[r].slug) = {}
       THEN Complete(r, into_response(Repository("ResourceNotFound")))
            /\ UNCHANGED <<api_keys, local>>
       ELSE \E tenant \in get_by_slug(req[r].slug) :
            IF tenant # context.tenant_id
            THEN Complete(r, into_response(AccessDenied)) /\ UNCHANGED <<api_keys, local>>
            ELSE \E id \in NewKeyIds \ {k.id : k \in api_keys} :
                 \E expires_at \in {None, Some(-1)} :
                    LET api_key == generate_api_key(id) IN
                    /\ api_keys' = api_keys \cup
                                     {ApiKeyRow(id, tenant, api_key, TRUE, expires_at)}
                    /\ local' = [local EXCEPT ![r].issued =
                                    Some([id |-> id, key |-> CreateApiKeyResponseKey(api_key)])]
                    /\ Complete(r, Success(201))

\* the key ids a request may name
KeyIds == {"k1", "k2", "k5", "zz"}

revoke_api_key(r) ==
    /\ pc[r] = "revoke_api_key"
    /\ UNCHANGED <<tenants, tenant_memberships, db, RATE_LIMITS, admitted, now, req,
                   local, solo, agree>>
    /\ LET context == current_tenant_context(r) IN
       IF context = Panic THEN Complete(r, PanicResp) /\ UNCHANGED api_keys
       ELSE IF ~can_manage(context)
       THEN Complete(r, into_response(AccessDenied)) /\ UNCHANGED api_keys
       ELSE \E key_id \in KeyIds :
            LET rows == {k \in api_keys : k.tenant_id = context.tenant_id /\ k.id = key_id}
            IN  /\ api_keys' = (api_keys \ rows) \cup
                                 {[k EXCEPT !.is_active = FALSE] : k \in rows}
                /\ Complete(r, IF rows = {} THEN ApiNotFound ELSE Success(204))

\* a request reaches the rate limiter with no tenant scope around it
rate_limit_layer(r, inputs) ==
    /\ pc[r] = "idle"
    /\ \E i \in inputs :
        /\ req' = [req EXCEPT ![r] = [i EXCEPT !.entry = "rate_limit_middleware"]]
        /\ pc' = [pc EXCEPT ![r] = "rate_limit"]
    /\ UNCHANGED <<tenants, tenant_memberships, api_keys, db, TENANT_CONTEXT,
                   RATE_LIMITS, admitted, now, local, resp, solo, agree>>

\* time passes: a second, or a whole window
Tick ==
    /\ Ticks < MaxClock
    /\ \E d \in {1, window_duration} : now' = now + d
    /\ UNCHANGED <<tenants, tenant_memberships, api_keys, db, TENANT_CONTEXT, RATE_LIMITS, admitted,
                   pc, req, local, resp, solo, agree>>

(***************************************************************************)
(* Repository methods called in a bound scope, each as one step.           *)
(***************************************************************************)
\* the tenants of the rows a result carries
TenantsOf(res) == IF res.ok THEN {row.tenant_id : row \in res.val} ELSE {}

\* a method returned res and left store d; the task goes on in its scope
RepoReturn(r, res, d) ==
    /\ pc[r] = "repo"
    /\ current_tenant_context(r) # Panic
    /\ db' = d
    /\ local' = [local EXCEPT ![r].seen = TenantsOf(res)]
    /\ resp' = [resp EXCEPT ![r] = IF res.ok THEN Success(200) ELSE into_response(res.val)]
    /\ UNCHANGED <<tenants, tenant_memberships, api_keys, TENANT_CONTEXT, RATE_LIMITS, admitted,
                   now, pc, req, solo, agree>>

\* the UUIDs a request can name for a row of table rows
IdsOf(rows) == {row.id : row \in rows}

monitor_repo_create(r) ==
    \E monitor_id \in MonitorIds :
    \E network_id \in {UnknownNetwork} \cup IdsOf(db.tenant_networks) :
        LET out == MonitorCreate(db, r, [monitor_id |-> monitor_id,
                                        network_id |-> network_id, name |-> "name"])
        IN  RepoReturn(r, out.res, out.db)

monitor_repo_get(r) ==
    \E monitor_id \in MonitorIds : RepoReturn(r, MonitorGet(db, r, monitor_id), db)

monitor_repo_list(r) == RepoReturn(r, MonitorList(db, r), db)

monitor_repo_update(r) ==
    \E monitor_id \in MonitorIds :
        LET out == MonitorUpdated(db, r, monitor_id, "renamed")
        IN  RepoReturn(r, out.res, out.db)

monitor_repo_delete(r) ==
    \E monitor_id \in MonitorIds :
        LET out == MonitorDeleted(db, r, monitor_id) IN RepoReturn(r, out.res, out.db)

network_repo_create(r) ==
    \E network_id \in NetworkIds :
        LET out == NetworkCreate(db, r, [network_id |-> network_id, name |-> "name"])
        IN  RepoReturn(r, out.res, out.db)

network_repo_get(r) ==
    \E network_id \in NetworkIds : RepoReturn(r, NetworkGet(db, r, network_id), db)

network_repo_list(r) == RepoReturn(r, NetworkList(db, r), db)

network_repo_delete(r) ==
    \E network_id \in NetworkIds :
        LET out == NetworkDeleted(db, r, network_id) IN RepoReturn(r, out.res, out.db)

trigger_repo_create(r) ==
    \E trigger_id \in TriggerIds : \E monitor_id \in IdsOf(db.tenant_monitors) :
        LET out == TriggerCreate(db, r, [trigger_id |-> trigger_id,
                                        monitor_id |-> monitor_id, name |-> "name"])
        IN  RepoReturn(r, out.res, out.db)

trigger_repo_get(r) ==
    \E trigger_id \in TriggerIds : RepoReturn(r, TriggerGet(db, r, trigger_id), db)

trigger_repo_get_by_monitor(r) ==
    \E monitor_id \in IdsOf(db.tenant_monitors) :
        RepoReturn(r, TriggerGetByMonitor(db, r, monitor_id), db)

trigger_repo_delete(r) ==
    \E trigger_id \in TriggerIds :
        LET out == TriggerDeleted(db, r, trigger_id) IN RepoReturn(r, out.res, out.db)

\* the body that called the repositories returns
\* TenantRepository::update: each quota of the request that is Some replaces
\* the column (COALESCE), whatever its value; a tenant that does not exist
\* gives RowNotFound and changes nothing
tenant_repo_update(tenant_id, request) ==
    /\ tenant_id \in DOMAIN tenants
    /\ tenants' = [tenants EXCEPT
          ![tenant_id].max_monitors =
              IF request.max_monitors = None THEN @ ELSE request.max_monitors[1],
          ![tenant_id].max_triggers_per_monitor =
              IF request.max_triggers_per_monitor = None THEN @
              ELSE request.max_triggers_per_monitor[1]]
    /\ UNCHANGED <<tenant_memberships, api_keys, db, TENANT_CONTEXT, RATE_LIMITS, admitted,
                   now, pc, req, local, resp, solo, agree>>

\* a service asks tenant_repo.get_quota_status(context.tenant_id) and keeps
\* the status; the panic of an overflow unwinds the task
tenant_repo_get_quota_status(r) ==
    /\ pc[r] = "repo"
    /\ current_tenant_context(r) # Panic
    /\ \E quota_status \in get_quota_status(db, current_tenant_id(r)) :
          IF quota_status.ok
          THEN /\ local' = [local EXCEPT ![r].svc = Some(quota_status.val)]
               /\ resp' = [resp EXCEPT ![r] = Success(200)]
               /\ UNCHANGED <<pc, TENANT_CONTEXT>>
          ELSE /\ Complete(r, IF quota_status.val = OverflowPanic THEN OverflowPanicResp
                              ELSE into_response(quota_status.val))
               /\ UNCHANGED local
    /\ UNCHANGED <<tenants, tenant_memberships, api_keys, db, RATE_LIMITS, admitted, now, req,
                   solo, agree>>

\* the handler of a resource route: one call of a service method, whose
\* result becomes the response of the request
ServiceResponse(res, status) ==
    IF res.ok THEN Success(status)
    ELSE IF res.val = OverflowPanic THEN OverflowPanicResp
    ELSE into_response(res.val)

Call(method, kind, id, on) == [method |-> method, kind |-> kind, id |-> id, on |-> on]

ServiceReturn(r, call, outs, status) ==
    /\ pc[r] = "svc"
    /\ current_tenant_context(r) # Panic
    /\ \E out \in outs :
          /\ db' = out.db
          /\ local' = [local EXCEPT ![r].call = Some(call), ![r].audit = out.audit]
          /\ Complete(r, ServiceResponse(out.res, status))
    /\ UNCHANGED <<tenants, tenant_memberships, api_keys, RATE_LIMITS, admitted, now, req,
                   solo, agree>>

\* the trigger_ids the service requests name
ServiceTriggerIds == TriggerIds \cup {"t2"}

monitor_service(r) ==
    \/ \E monitor_id \in MonitorIds :
       \E network_id \in {UnknownNetwork} \cup IdsOf(db.tenant_networks) :
          ServiceReturn(r, Call("create", "monitor", monitor_id, network_id),
              MonitorServiceCreate(db, r, [monitor_id |-> monitor_id,
                                           network_id |-> network_id, name |-> "name"],
                                   req[r].fault), 201)
    \/ \E monitor_id \in MonitorIds :
          ServiceReturn(r, Call("update", "monitor", monitor_id, <<>>),
              MonitorServiceUpdate(db, r, monitor_id, "renamed", req[r].fault), 200)
    \/ \E monitor_id \in MonitorIds :
          ServiceReturn(r, Call("delete", "monitor", monitor_id, <<>>),
              MonitorServiceDelete(db, r, monitor_id, req[r].fault), 204)

network_service(r) ==
    \/ \E network_id \in NetworkIds :
          ServiceReturn(r, Call("create", "network", network_id, <<>>),
              NetworkServiceCreate(db, r, [network_id |-> network_id, name |-> "name"],
                                   req[r].fault), 201)
    \/ \E network_id \in NetworkIds :
          ServiceReturn(r, Call("delete", "network", network_id, <<>>),
              NetworkServiceDelete(db, r, network_id, req[r].fault), 204)

trigger_service(r) ==
    \/ \E trigger_id \in ServiceTriggerIds : \E monitor_id \in IdsOf(db.tenant_monitors) :
          ServiceReturn(r, Call("create", "trigger", trigger_id, monitor_id),
              TriggerServiceCreate(db, r, [trigger_id |-> trigger_id,
                                           monitor_id |-> monitor_id, name |-> "name"],
                                   req[r].fault), 201)
    \/ \E trigger_id \in ServiceTriggerIds :
          ServiceReturn(r, Call("delete", "trigger", trigger_id, <<>>),
              TriggerServiceDelete(db, r, trigger_id, req[r].fault), 204)

repo_return(r) ==
    /\ pc[r] = "repo"
    /\ Complete(r, resp[r])
    /\ UNCHANGED <<tenants, tenant_memberships, api_keys, db, RATE_LIMITS, admitted, now, req,
                   local, solo, agree>>

\* the request's future is dropped at a suspension point (client went away)
Cancel(r) ==
    /\ InFlight(r)
    /\ Complete(r, Cancelled)
    /\ UNCHANGED <<tenants, tenant_memberships, api_keys, db, RATE_LIMITS, admitted, now, req,
                   local, solo, agree>>

\* the task slot takes the next request
Reset(r) ==
    /\ pc[r] = "done"
    /\ pc' = [pc EXCEPT ![r] = "idle"]
    /\ req' = [req EXCEPT ![r] = NoReq]
    /\ resp' = [resp EXCEPT ![r] = NoResp]
    /\ local' = [local EXCEPT ![r] = NoLocal]
    /\ agree' = [agree EXCEPT ![r] = TRUE]
    /\ UNCHANGED <<tenants, tenant_memberships, api_keys, db, TENANT_CONTEXT,
                   RATE_LIMITS, admitted, now, solo>>

\* the monitor instance that shares the database records today's storage
\* usage of a tenant (a row of resource_usage with usage_date = CURRENT_DATE)
RecordStorageUsage(t) ==
    /\ db.resource_usage[t] = None
    /\ db' = [db EXCEPT !.resource_usage[t] = Some(0)]
    /\ solo' = [solo EXCEPT ![t].store.resource_usage[t] = Some(0)]
    /\ UNCHANGED <<tenants, tenant_memberships, api_keys, TENANT_CONTEXT, RATE_LIMITS, admitted,
                   now, pc, req, local, resp, agree>>

\* the date changes: the storage query of get_quota_status selects the rows
\* with usage_date = CURRENT_DATE, and the tenant has none for the new day
NewDay(t) ==
    /\ db.resource_usage[t] # None
    /\ db' = [db EXCEPT !.resource_usage[t] = None]
    /\ solo' = [solo EXCEPT ![t].store.resource_usage[t] = None]
    /\ UNCHANGED <<tenants, tenant_memberships, api_keys, TENANT_CONTEXT, RATE_LIMITS, admitted,
                   now, pc, req, local, resp, agree>>

(***************************************************************************)
(* Initial state: two tenants, their members and API keys, empty tables.   *)
(***************************************************************************)
Slug(t) == IF t = "A" THEN "a" ELSE "b"

TenantRow(t, max_monitors) ==
    [slug |-> Slug(t), is_active |-> TRUE, max_monitors |-> max_monitors,
     max_networks |-> 1, max_triggers_per_monitor |-> 1,
     max_rpc_requests_per_minute |-> 1, max_storage_mb |-> 1]

InitMemberships ==
    {[tenant_id |-> "A", user_id |-> "u1", role |-> "owner"],
     [tenant_id |-> "A", user_id |-> "u2", role |-> "viewer"],
     [tenant_id |-> "B", user_id |-> "u2", role |-> "member"]}

InitApiKeys ==
    {ApiKeyRow("k1", "A", "s1", TRUE, None),
     ApiKeyRow("k2", "B", "s2", TRUE, None),
     ApiKeyRow("k3", "A", "s3", TRUE, Some(-1)),
     ApiKeyRow("k4", "A", "s4", FALSE, None)}

InitCommon ==
    /\ tenant_memberships = InitMemberships
    /\ api_keys = InitApiKeys
    /\ db = EmptyStore
    /\ TENANT_CONTEXT = [r \in Req |-> NoContext]
    /\ RATE_LIMITS = [t \in Tenants \cup {DummyTenant} |-> None]
    /\ now = 0
    /\ pc = [r \in Req |-> "idle"]
    /\ req = [r \in Req |-> NoReq]
    /\ local = [r \in Req |-> NoLocal]
    /\ resp = [r \in Req |-> NoResp]
    /\ solo = [t \in Tenants \cup {DummyTenant} |->
                 [store |-> EmptyStore, limits |-> None]]
    /\ agree = [r \in Req |-> TRUE]
    /\ admitted = [t \in Tenants \cup {DummyTenant} |-> 0]

Init ==
    /\ tenants = [t \in Tenants |-> TenantRow(t, 1)]
    /\ InitCommon

InitOne ==
    /\ tenants \in {[t \in Tenants |-> TenantRow(t, q[t])] : q \in [Tenants -> 0..MaxQuota]}
    /\ InitCommon

(***************************************************************************)
(* The requests the model issues.                                          *)
(***************************************************************************)
Slugs == {"a", "b", "zz"}

Ops == {"create_monitor", "get_monitor", "delete_monitor"}

ApiKey(secret) == <<api_key_prefix, secret>>

AllCreds ==
    {Jwt("u1", TRUE, FarFuture), Jwt("u2", TRUE, FarFuture), Jwt("u1", FALSE, FarFuture),
     Jwt("u1", TRUE, -1),
     ApiKey("s1"), ApiKey("s2"), ApiKey("s3"), ApiKey("s4"), ApiKey("zz")}

MainCreds == {Jwt("u1", TRUE, FarFuture), Jwt("u2", TRUE, FarFuture), ApiKey("s2")}

Inputs(slugs, creds, ops) ==
    [entry : {"-"}, slug : slugs, cred : creds, op : ops, monitor_id : MonitorIds,
     network_id : {UnknownNetwork}, name : {"name"}, fault : {NoFault}]

MainInputs == Inputs({"a", "b"}, MainCreds, Ops)

\* every slug and credential, with each persistence call failing in turn
AllInputs == {[i EXCEPT !.fault = f] : i \in Inputs(Slugs, AllCreds, Ops), f \in Faults}

\* a request that carries no credential the entry point looks at
BareInputs == Inputs({"a"}, {<<>>}, Ops)

(***************************************************************************)
(* Specifications.                                                         *)
(***************************************************************************)
Handler(r) ==
    \/ create_monitor(r)
    \/ repo_create(r)
    \/ repo_exists(r)
    \/ repo_insert(r)
    \/ audit_log(r)
    \/ get_monitor(r)
    \/ delete_monitor(r)
    \/ repo_delete(r)

\* concurrent requests through tenant_auth_middleware
Next ==
    \/ \E r \in Req : TenantAuth(r, MainInputs, "handler")
    \/ \E r \in Req : Handler(r)
    \/ \E r \in Req : Cancel(r)
    \/ \E r \in Req : Reset(r)
    \/ \E t \in Tenants : RecordStorageUsage(t)

Spec == Init /\ [][Next]_vars

\* one request at a time, through each entry point, with every credential
NextOne ==
    \/ create_router("r1", BareInputs)
    \/ TenantAuth("r1", AllInputs, "handler")
    \/ tenant_context_middleware("r1", BareInputs)
    \/ Handler("r1")
    \/ Reset("r1")
    \/ \E t \in Tenants : RecordStorageUsage(t)

SpecOne == InitOne /\ [][NextOne]_vars

\* one task after another enters a tenant's scope and calls the repositories
RepoInputs ==
    {i \in Inputs({"a", "b"}, {ApiKey("s1"), ApiKey("s2")}, {"repo"}) : i.monitor_id = "m1"}

RepositoryCall(r) ==
    \/ monitor_repo_create(r)
    \/ monitor_repo_get(r)
    \/ monitor_repo_list(r)
    \/ monitor_repo_update(r)
    \/ monitor_repo_delete(r)
    \/ network_repo_create(r)
    \/ network_repo_get(r)
    \/ network_repo_list(r)
    \/ network_repo_delete(r)
    \/ trigger_repo_create(r)
    \/ trigger_repo_get(r)
    \/ trigger_repo_get_by_monitor(r)
    \/ trigger_repo_delete(r)

NextRepo ==
    \/ TenantAuth("r1", RepoInputs, "repo")
    \/ RepositoryCall("r1")
    \/ repo_return("r1")
    \/ Reset("r1")

SpecRepo == Init /\ [][NextRepo]_vars

\* one tenant's resources are created, its quotas are updated to
\* any value an i32 column takes at the ends of its range and near its usage,
\* and the quota status is computed in between
QuotaInputs ==
    {i \in Inputs({"a"}, {ApiKey("s1")}, {"repo"}) : i.monitor_id = "m1"}

QuotaValues == {i32_MIN, i32_MAX} \cup (0..MaxQuota)

\* the requests that change at most one quota at a time
UpdateTenantRequests ==
    {request \in [max_monitors : {None} \cup {Some(v) : v \in QuotaValues},
                  max_triggers_per_monitor : {None} \cup {Some(v) : v \in QuotaValues}] :
        request.max_monitors = None \/ request.max_triggers_per_monitor = None}

NextQuota ==
    \/ TenantAuth("r1", QuotaInputs, "repo")
    \/ monitor_repo_create("r1")
    \/ trigger_repo_create("r1")
    \/ tenant_repo_get_quota_status("r1")
    \/ \E request \in UpdateTenantRequests : tenant_repo_update("A", request)
    \/ RecordStorageUsage("A")
    \/ repo_return("r1")
    \/ Reset("r1")

SpecQuota == Init /\ [][NextQuota]_vars

\* one request after another of tenant A's owner, viewer and API key is
\* served by a service method, with the audit log working or failing, while
\* the tenant's quotas are updated
SvcInputs ==
    {[i EXCEPT !.fault = f] :
        i \in {j \in Inputs({"a"}, {Jwt("u1", TRUE, FarFuture), Jwt("u2", TRUE, FarFuture),
                                   ApiKey("s1")}, {"svc"}) : j.monitor_id = "m1"},
        f \in {NoFault, "audit_log"}}

SvcUpdateRequests ==
    {request \in UpdateTenantRequests :
        /\ request.max_monitors \in {None} \cup {Some(v) : v \in 0..MaxQuota}
        /\ request.max_triggers_per_monitor \in {None, Some(0), Some(1)}}

NextSvc ==
    \/ TenantAuth("r1", SvcInputs, "svc")
    \/ monitor_service("r1")
    \/ network_service("r1")
    \/ trigger_service("r1")
    \/ \E request \in SvcUpdateRequests : tenant_repo_update("A", request)
    \/ RecordStorageUsage("A")
    \/ NewDay("A")
    \/ Reset("r1")

SpecSvc == Init /\ [][NextSvc]_vars

\* requests create and revoke API keys and present keys, through the
\* middleware and, as the router is built, with no scope bound
KeyOps == {"create_api_key", "revoke_api_key", "get_monitor"}

KeyInputs ==
    {i \in Inputs({"a", "b"},
                  {Jwt("u1", TRUE, FarFuture), Jwt("u2", TRUE, FarFuture),
                   ApiKey("s1"), ApiKey("s2"), ApiKey("s5"), CreateApiKeyResponseKey("s5")},
                  KeyOps) : i.monitor_id = "m1"}

BareKeyInputs == {i \in Inputs({"a"}, {<<>>}, KeyOps) : i.monitor_id = "m1"}

NextKeys ==
    \/ \E r \in Req : TenantAuth(r, KeyInputs, "handler")
    \/ \E r \in Req : create_router(r, BareKeyInputs)
    \/ \E r \in Req : create_api_key(r)
    \/ \E r \in Req : revoke_api_key(r)
    \/ \E r \in Req : get_monitor(r)
    \/ \E r \in Req : Reset(r)

SpecKeys == Init /\ [][NextKeys]_vars

\* the requests of two tenants, one task each, through the credential
\* resolver, the rate limiter and the handler, while time passes
IndepInputs(r) ==
    IF r = "r1" THEN Inputs({"a"}, {Jwt("u1", TRUE, FarFuture)}, Ops)
    ELSE Inputs({"b"}, {ApiKey("s2")}, Ops)

NextIndep ==
    \/ \E r \in Req : TenantAuth(r, IndepInputs(r), "rate_limit")
    \/ \E r \in Req : RateLimit(r)
    \/ \E r \in Req : Handler(r)
    \/ \E r \in Req : Reset(r)
    \/ \E t \in Tenants : RecordStorageUsage(t)
    \/ Tick

SpecIndep == Init /\ [][NextIndep]_vars

\* reads of a monitor by a user of tenant A and by an API key of tenant B,
\* behind the credential resolver and the rate limiter or behind the rate
\* limiter alone, while time passes
RateInputs ==
    {i \in Inputs({"a"}, {Jwt("u1", TRUE, FarFuture)}, {"get_monitor"})
            \cup Inputs({"b"}, {ApiKey("s2")}, {"get_monitor"}) : i.monitor_id = "m1"}

NextRate ==
    \/ \E r \in Req : TenantAuth(r, RateInputs, "rate_limit")
    \/ \E r \in Req : rate_limit_layer(r, RateInputs)
    \/ \E r \in Req : RateLimitCounted(r)
    \/ \E r \in Req : get_monitor(r)
    \/ \E r \in Req : Reset(r)
    \/ Tick

SpecRate == Init /\ [][NextRate]_vars

\* concurrent requests of tenant A's users go through the rate limiter, each
\* reading the clock and then waiting for the lock
LockInputs ==
    {i \in Inputs({"a"}, {Jwt("u1", TRUE, FarFuture), Jwt("u2", TRUE, FarFuture)},
                  {"get_monitor"}) : i.monitor_id = "m1"}

NextLock ==
    \/ \E r \in Req : TenantAuth(r, LockInputs, "rate_limit_now")
    \/ \E r \in Req : rate_limit_now(r)
    \/ \E r \in Req : rate_limit_locked(r)
    \/ \E r \in Req : get_monitor(r)
    \/ \E r \in Req : Reset(r)
    \/ Tick

SpecLock == Init /\ [][NextLock]_vars

(***************************************************************************)
(* Vocabulary of the properties.                                           *)
(***************************************************************************)
HandlerPcs ==
    {"create_monitor", "repo_create", "repo_exists", "repo_insert", "audit_log",
     "get_monitor", "delete_monitor", "repo_delete"}

\* the task's request entered through tenant_auth_middleware and is in scope
Authenticated(r) ==
    /\ req[r].entry = "tenant_auth_middleware"
    /\ TENANT_CONTEXT[r] # NoContext

\* the contexts that resolving the request's credential can produce
Resolved(r) ==
    {out.val : out \in {o \in tenant_auth_middleware(req[r].slug, req[r].cred, req[r].fault) : o.ok}}

\* rows of the monitor id the request names, in its tenant and in other tenants
OwnRows(r) ==
    {m \in db.tenant_monitors :
        m.tenant_id = TENANT_CONTEXT[r].tenant_id /\ m.monitor_id = req[r].monitor_id}

ForeignRows(r) ==
    {m \in db.tenant_monitors :
        m.tenant_id # TENANT_CONTEXT[r].tenant_id /\ m.monitor_id = req[r].monitor_id}

NotFoundResp == [status |-> 404, code |-> "NOT_FOUND", message |-> "Resource not found"]

ForbiddenResp == [status |-> 403, code |-> "ACCESS_DENIED", message |-> "Access denied"]

QuotaExceededResp ==
    [status |-> 429, code |-> "QUOTA_EXCEEDED", message |-> "Quota exceeded"]

\* task r takes the first step of a handler that names a monitor id
LooksUp(r) ==
    /\ pc[r] \in {"get_monitor", "delete_monitor"}
    /\ pc'[r] # pc[r]
    /\ Authenticated(r)

(***************************************************************************)
(* C1: a repository method called in the scope of tenant A returns only    *)
(* rows whose tenant_id is A and inserts, changes and removes only rows    *)
(* whose tenant_id is A, whatever identifiers the caller passes.           *)
(***************************************************************************)
AllRows(d) == d.tenant_monitors \cup d.tenant_networks \cup d.tenant_triggers

C2_ForeignIsNotFound ==
    [][\A r \in Req :
         (LooksUp(r) /\ OwnRows(r) = {} /\ ForeignRows(r) # {})
            => (pc'[r] = "done" /\ resp'[r] = NotFoundResp)]_vars

(***************************************************************************)
(* C2 amended: a request for an identifier that the caller's tenant does   *)
(* not hold gets one outcome whether or not another tenant holds it:       *)
(* NotFound for a read and for a write of a write-capable principal,       *)
(* Forbidden (decided before any lookup) for a write of a viewer.          *)
(***************************************************************************)
C2_ForeignIsLikeNonexistent ==
    [][\A r \in Req :
         (LooksUp(r) /\ OwnRows(r) = {})
            => /\ pc'[r] = "done"
               /\ resp'[r] = IF pc[r] = "delete_monitor" /\ ~can_write(TENANT_CONTEXT[r])
                             THEN ForbiddenResp ELSE NotFoundResp]_vars

\* a read of a monitor id that only the other tenant holds was answered NotFound
C2_Witness ==
    \E r \in Req :
        /\ pc[r] = "done" /\ req[r].op = "get_monitor" /\ resp[r] = NotFoundResp
        /\ req[r].entry = "tenant_auth_middleware"
        /\ \E m \in db.tenant_monitors :
              m.monitor_id = req[r].monitor_id /\ tenants[m.tenant_id].slug # req[r].slug
        /\ ~\E m \in db.tenant_monitors :
              m.monitor_id = req[r].monitor_id /\ tenants[m.tenant_id].slug = req[r].slug

(***************************************************************************)
(* C3: when credential resolution succeeds for tenant slug S, the bound    *)
(* context's tenant is the tenant with slug S and its principal is a user  *)
(* with a membership in that tenant, carrying that membership's role, or   *)
(* an active API key of that tenant; a credential of another tenant only   *)
(* produces no context.                                                    *)
(***************************************************************************)
C3_ContextMatchesCredential ==
    \A r \in Req :
        Authenticated(r) =>
            LET c == TENANT_CONTEXT[r] IN
            /\ c.tenant_id \in get_by_slug(req[r].slug)
            /\ \/ /\ c.user # NoUser
                  /\ c.api_key_id = NoKey
                  /\ verify_jwt(req[r].cred).ok
                  /\ verify_jwt(req[r].cred).sub = c.user.id
                  /\ \E m \in tenant_memberships :
                        /\ m.tenant_id = c.tenant_id
                        /\ m.user_id = c.user.id
                        /\ m.role = c.user.role
               \/ /\ c.user = NoUser
                  /\ \E k \in api_keys :
                        /\ k.id = c.api_key_id
                        /\ k.tenant_id = c.tenant_id
                        /\ k.is_active
                        /\ verify_password(Tail(req[r].cred), k.key_hash)

\* a request runs in the scope of tenant B, resolved from B's API key
C3_Witness ==
    \E r \in Req :
        /\ Authenticated(r)
        /\ TENANT_CONTEXT[r] = with_api_key("B", "k2")
        /\ req[r].slug = "b"

(***************************************************************************)
(* C4 as claimed: every request that reaches a tenant-scoped handler runs  *)
(* inside a scope whose context was resolved from a verified credential.   *)
(***************************************************************************)
C4_HandlerRunsInVerifiedScope ==
    \A r \in Req :
        pc[r] \in HandlerPcs => (Authenticated(r) /\ TENANT_CONTEXT[r] \in Resolved(r))

(***************************************************************************)
(* C5: a task observes only the context its own request bound, while the   *)
(* body runs; once the body completed (success, error, cancellation) no    *)
(* binding is retrievable.                                                 *)
(***************************************************************************)
C5_BindingIsRequestLocal ==
    \A r \in Req :
        IF InFlight(r) THEN TENANT_CONTEXT[r] \in Resolved(r)
        ELSE TENANT_CONTEXT[r] = NoContext

\* one task is in the scope of tenant A while another task, which served
\* tenant B, has completed
C5_Witness ==
    \E r1 \in Req : \E r2 \in Req \ {r1} :
        /\ InFlight(r1) /\ TENANT_CONTEXT[r1].tenant_id = "A"
        /\ pc[r2] = "done" /\ resp[r2].code = "OK" /\ req[r2].slug = "b"

C7_QuotaDecidesCreation ==
    [][\A r \in Req :
         (/\ pc[r] = "create_monitor" /\ pc'[r] # pc[r]
          /\ Authenticated(r) /\ can_write(TENANT_CONTEXT[r]))
            => IF MonitorCount(db, Ten(r)) < tenants[Ten(r)].max_monitors
               THEN pc'[r] = "repo_create"
               ELSE resp'[r] = QuotaExceededResp /\ db' = db]_vars

(***************************************************************************)
(* C8 as claimed: a creation that passed the service's quota check and     *)
(* then fails inside the repository's create (capacity used up or the      *)
(* monitor id taken meanwhile) is reported as AlreadyExists or             *)
(* QuotaExceeded.                                                          *)
(***************************************************************************)
C8_LateViolationIsTyped ==
    \A r \in Req :
        (/\ pc[r] = "done" /\ req[r].op = "create_monitor"
         /\ local[r].svc # None /\ ~local[r].created /\ resp[r] # Cancelled)
            => resp[r].code \in {"ALREADY_EXISTS", "QUOTA_EXCEEDED"}

(***************************************************************************)
(* C9: check and creation are not atomic.  Every stored monitor was        *)
(* inserted by a request that saw the count below max_monitors at both of  *)
(* its checks, and still two concurrent creations leave the count one      *)
(* above the maximum (the witness).                                        *)
(***************************************************************************)
C9_CheckedThenCreated ==
    /\ \A r \in Req :
          local[r].created =>
             /\ local[r].svc # None
             /\ local[r].svc[1].usage.monitors_count < local[r].svc[1].quotas.max_monitors
             /\ local[r].repo # None /\ local[r].repo[1].count < local[r].repo[1].max
    /\ \A t \in Tenants :
          MonitorCount(db, t) <= tenants[t].max_monitors + Cardinality(Req) - 1

\* both creations succeeded and tenant A holds one monitor more than max_monitors
C9_Witness ==
    /\ \A r \in Req :
          /\ pc[r] = "done" /\ req[r].op = "create_monitor" /\ req[r].slug = "a"
          /\ resp[r] = Success(201)
    /\ MonitorCount(db, "A") = tenants["A"].max_monitors + 1

(***************************************************************************)
(* C10: what a tenant's requests observe (the rows found, the quota status *)
(* and the quota decisions, the rate limiter's decisions) and the state    *)
(* they leave for the tenant (its rows, its usage, its rate-limit entry)   *)
(* are what they would be had no other tenant issued any request.          *)
(***************************************************************************)
TenantView(d, t) ==
    [tenant_monitors |-> {m \in d.tenant_monitors : m.tenant_id = t},
     resource_usage |-> d.resource_usage[t]]

C10_TenantsAreIndependent ==
    /\ \A r \in Req : agree[r]
    /\ \A t \in Tenants :
          /\ TenantView(db, t) = TenantView(solo[t].store, t)
          /\ RATE_LIMITS[t] = solo[t].limits

\* tenant A created a monitor while tenant B holds monitors and both
\* tenants have been rate limited
C10_Witness ==
    /\ \E r \in Req : pc[r] = "done" /\ req[r].slug = "a" /\ resp[r] = Success(201)
    /\ MonitorCount(db, "B") > 0
    /\ RATE_LIMITS["A"] # None /\ RATE_LIMITS["B"] # None

(***************************************************************************)
(* Vocabulary of the claims about the rate limiter.                        *)
(***************************************************************************)
\* the request went through tenant_auth_middleware
ViaAuth(r) == req[r].entry = "tenant_auth_middleware"

\* task r, in the scope of a tenant, takes the rate limiter's step
Limited(r) ==
    /\ pc[r] = "rate_limit" /\ pc'[r] # "rate_limit"
    /\ TENANT_CONTEXT[r] # NoContext

\* the tenant's entry, when Limited(r)
EntryOf(r) == RATE_LIMITS[TENANT_CONTEXT[r].tenant_id]

TooManyRequests == StatusOnly(429)

(***************************************************************************)
(* C11 as claimed: within one window of a tenant a request is admitted     *)
(* while fewer than burst_size requests were admitted in the window and    *)
(* rejected with 429 once burst_size were (with limit 2 and burst 3: three *)
(* admitted, the fourth rejected).                                         *)
(***************************************************************************)
C11_BurstCeiling ==
    [][\A r \in Req :
         (/\ Limited(r) /\ EntryOf(r) # None
          /\ now - EntryOf(r)[1].window_start <= window_duration)
            => IF admitted[TENANT_CONTEXT[r].tenant_id] < burst_size(TENANT_CONTEXT[r])
               THEN pc'[r] = req[r].op
               ELSE resp'[r] = TooManyRequests]_vars

(***************************************************************************)
(* C12: a request arriving more than 60 seconds after the window_start of  *)
(* its tenant's entry is admitted and leaves the entry with count 1 and    *)
(* window_start the arrival time.                                          *)
(***************************************************************************)
C12_ExpiredWindowResets ==
    [][\A r \in Req :
         (/\ Limited(r) /\ EntryOf(r) # None
          /\ now - EntryOf(r)[1].window_start > window_duration)
            => /\ pc'[r] = req[r].op
               /\ RATE_LIMITS'[TENANT_CONTEXT[r].tenant_id] = Some(RateLimitEntry(1, now))]_vars

\* two requests of tenant A's user were admitted, yet the entry counts one:
\* the second arrived after the window of the first and reset the entry
C12_Witness ==
    \E r1 \in Req : \E r2 \in Req \ {r1} :
        /\ ViaAuth(r1) /\ req[r1].slug = "a" /\ pc[r1] = "done" /\ resp[r1].code # ""
        /\ ViaAuth(r2) /\ req[r2].slug = "a" /\ pc[r2] = "get_monitor"
        /\ RATE_LIMITS["A"] = Some(RateLimitEntry(1, now))
        /\ now > window_duration

(***************************************************************************)
(* C13: with no tenant context bound the rate limiter passes the request   *)
(* to the downstream handler and leaves every rate-limit entry as it is.   *)
(***************************************************************************)
C13_NoContextPassesThrough ==
    [][\A r \in Req :
         (pc[r] = "rate_limit" /\ pc'[r] # "rate_limit" /\ TENANT_CONTEXT[r] = NoContext)
            => /\ pc'[r] = req[r].op
               /\ resp'[r] = resp[r]
               /\ RATE_LIMITS' = RATE_LIMITS]_vars

\* a request without a scope passed the limiter while tenants have entries
C13_Witness ==
    \E r \in Req :
        /\ req[r].entry = "rate_limit_middleware" /\ pc[r] = "get_monitor"
        /\ RATE_LIMITS["A"] # None /\ RATE_LIMITS["B"] # None
        /\ RATE_LIMITS[DummyTenant] = None

(***************************************************************************)
(* Vocabulary of the claims about credential resolution.                   *)
(***************************************************************************)
\* the quota statuses the tasks hold
Statuses == {local[r].svc[1] : r \in {q \in Req : local[q].svc # None}}

AvailableFields == {"monitors", "networks", "triggers", "rpc_requests_per_minute",
                    "storage_mb"}

\* C14: every field of the available resources of a quota status is at least
\* zero, whatever the quotas and the usage are, usage above the quota and
\* quotas changed by an update included.
C14_AvailableNeverNegative ==
    \A status \in Statuses : \A field \in AvailableFields : status.available[field] >= 0

\* a status computed after an update left the usage above the quota
C14_Witness ==
    \E status \in Statuses :
        /\ status.usage.monitors_count > status.quotas.max_monitors
        /\ status.available.monitors = 0
        /\ status.quotas.max_monitors # 1

\* m * c <= t and m * c - t = a over the integers, for m, t >= 0, by
\* subtraction that stays within the range of the model checker's integers
RECURSIVE LeProd(_, _, _)
LeProd(m, c, t) == IF c = 0 THEN 0 <= t ELSE t >= m /\ LeProd(m, c - 1, t - m)

RECURSIVE EqProd(_, _, _, _)
EqProd(m, c, t, a) ==
    IF c = 0 THEN a = -t
    ELSE IF a < i32_MIN + m THEN FALSE
    ELSE EqProd(m, c - 1, t, a - m)

\* C15: for non-negative max_triggers_per_monitor, monitors_count and
\* triggers_count the available triggers of a quota status are
\* max(0, max_triggers_per_monitor * monitors_count - triggers_count).
C15_AvailableTriggersFormula ==
    \A status \in Statuses :
        status.quotas.max_triggers_per_monitor >= 0 =>
            LET m == status.quotas.max_triggers_per_monitor
                c == status.usage.monitors_count
                t == status.usage.triggers_count
                a == status.available.triggers
            IN  \/ a = 0 /\ LeProd(m, c, t)
                \/ a > 0 /\ EqProd(m, c, t, a)

\* the active keys of the requested tenant whose hash the presented key matches
PresentedKeys(r) ==
    {k \in api_keys :
        /\ starts_with(req[r].cred, api_key_prefix)
        /\ tenants[k.tenant_id].slug = req[r].slug
        /\ k.is_active
        /\ verify_password(Tail(req[r].cred), k.key_hash)}

Expired(k) == k.expires_at # None /\ k.expires_at[1] < now

\* the request ended in the middleware, with a bare status
ResolutionFailed(r) ==
    /\ ViaAuth(r) /\ pc[r] = "done"
    /\ resp[r].code = "" /\ resp[r].status # 429

(***************************************************************************)
(* C16: an API key whose expires_at is in the past never authenticates.    *)
(* When the key lookup itself works, a presented key that matches only     *)
(* expired keys ends in 401 Unauthorized with no context bound, which is   *)
(* the outcome of a key that matches no record.                            *)
(***************************************************************************)
C16_ExpiredKeyIsUnauthorized ==
    \A r \in Req :
        (/\ ViaAuth(r) /\ req[r].fault # "key_lookup"
         /\ PresentedKeys(r) # {} /\ \A k \in PresentedKeys(r) : Expired(k))
            => /\ pc[r] = "done" /\ resp[r] = StatusOnly(401)
               /\ TENANT_CONTEXT[r] = NoContext
               /\ tenant_auth_middleware(req[r].slug, req[r].cred, req[r].fault)
                    = tenant_auth_middleware(req[r].slug, <<api_key_prefix, "zz">>,
                                             req[r].fault)

\* the expired key k3 of tenant A was presented and refused
C16_Witness ==
    \E r \in Req :
        /\ ViaAuth(r) /\ req[r].slug = "a" /\ req[r].cred = <<api_key_prefix, "s3">>
        /\ req[r].fault = NoFault
        /\ resp[r] = StatusOnly(401)

(***************************************************************************)
(* C17: a bearer token that verifies, of a user with no membership row in  *)
(* the requested (existing) tenant, ends in 403 Forbidden when the tenant  *)
(* and membership queries work: not in 401 and not in 404.                 *)
(***************************************************************************)
C17_NoMembershipIsForbidden ==
    \A r \in Req :
        (/\ ViaAuth(r) /\ ~starts_with(req[r].cred, api_key_prefix)
         /\ req[r].fault \notin {"get_by_slug", "get_user_tenants"}
         /\ verify_jwt(req[r].cred).ok
         /\ get_by_slug(req[r].slug) # {}
         /\ \A t \in get_by_slug(req[r].slug) :
               ~\E m \in tenant_memberships :
                    m.tenant_id = t /\ m.user_id = verify_jwt(req[r].cred).sub)
            => /\ pc[r] = "done" /\ resp[r] = StatusOnly(403)
               /\ TENANT_CONTEXT[r] = NoContext

\* user u1, a member of tenant A only, asked for tenant B
C17_Witness ==
    \E r \in Req :
        /\ ViaAuth(r) /\ req[r].slug = "b" /\ verify_jwt(req[r].cred).ok
        /\ verify_jwt(req[r].cred).sub = "u1"
        /\ resp[r] = StatusOnly(403)

(***************************************************************************)
(* C18 as claimed: when the presented key matches and is not expired, a    *)
(* failure of the UPDATE of last_used_at does not fail the request.        *)
(***************************************************************************)
C18_LastUsedFailureIsTolerated ==
    \A r \in Req :
        (/\ ViaAuth(r) /\ req[r].fault = "last_used"
         /\ PresentedKeys(r) # {} /\ \A k \in PresentedKeys(r) : ~Expired(k))
            => ~ResolutionFailed(r)

(***************************************************************************)
(* C19 as claimed: every context bound to a request has exactly one        *)
(* principal, a user or an API key id.                                     *)
(***************************************************************************)
C19_ExactlyOnePrincipal ==
    \A r \in Req :
        TENANT_CONTEXT[r] # NoContext =>
            ((TENANT_CONTEXT[r].user # NoUser) # (TENANT_CONTEXT[r].api_key_id # NoKey))

(***************************************************************************)
(* Vocabulary of the claims about the service methods.                     *)
(***************************************************************************)
\* task r calls a service method in this step
Serves(r) == pc[r] = "svc" /\ pc'[r] = "done"

Succeeded(response) == response.status \in {200, 201, 204}

(***************************************************************************)
(* C21 as claimed: when the audit-log write after a successful create,     *)
(* update or delete fails, the request still succeeds.                     *)
(***************************************************************************)
C21_AuditFailureIsTolerated ==
    [][\A r \in Req :
         (Serves(r) /\ req[r].fault = "audit_log" /\ db' # db) => Succeeded(resp'[r])]_vars

\* the call task r makes in this step
Calls(r, method, kind) ==
    /\ Serves(r)
    /\ local'[r].call # None
    /\ local'[r].call[1].method = method /\ local'[r].call[1].kind = kind

\* the triggers of the tenant of task r on the monitor row with UUID id
TriggersOn(r, id) ==
    Cardinality({g \in db.tenant_triggers : g.tenant_id = Ten(r) /\ g.monitor_id = id})

\* the usage of task r's tenant is above its quota for the kind of resource
\* that the call of this step creates
AboveQuota(r) ==
    \/ Calls(r, "create", "monitor")
         /\ MonitorCount(db, Ten(r)) > tenants[Ten(r)].max_monitors
    \/ Calls(r, "create", "network")
         /\ NetworkCount(db, Ten(r)) > tenants[Ten(r)].max_networks
    \/ Calls(r, "create", "trigger")
         /\ TriggersOn(r, local'[r].call[1].on) > tenants[Ten(r)].max_triggers_per_monitor

(***************************************************************************)
(* C22 as claimed: an update of a tenant's quotas deletes no resource, and *)
(* while the usage is above the quota a creation of that kind of resource  *)
(* by a principal that can write is rejected with QuotaExceeded.           *)
(***************************************************************************)
C22_OverQuotaBlocksCreation ==
    [][/\ tenants' # tenants => db' = db
       /\ \A r \in Req :
            (AboveQuota(r) /\ can_write(TENANT_CONTEXT[r]))
               => resp'[r] = QuotaExceededResp /\ db' = db]_vars

\* the principal of task r is a user whose role is viewer
IsViewer(r) == TENANT_CONTEXT[r].user # NoUser /\ TENANT_CONTEXT[r].user.role = "viewer"

(***************************************************************************)
(* C23: a create, update or delete asked by a user whose role is viewer is *)
(* answered 403 ACCESS_DENIED, changes no stored resource and writes no    *)
(* audit entry; a service call that changes the store or writes an audit   *)
(* entry is made by an owner, admin or member user or by an API key.       *)
(***************************************************************************)
C23_ViewerCannotMutate ==
    [][\A r \in Req :
         Serves(r) =>
            /\ IsViewer(r) =>
                  resp'[r] = ForbiddenResp /\ db' = db /\ local'[r].audit = {}
            /\ (db' # db \/ local'[r].audit # {}) =>
                  \/ TENANT_CONTEXT[r].api_key_id # NoKey
                  \/ TENANT_CONTEXT[r].user.role \in {"owner", "admin", "member"}]_vars

\* the viewer u2 of tenant A asked to delete monitor m1, which exists, and
\* was refused
C23_Witness ==
    /\ pc["r1"] = "done" /\ verify_jwt(req["r1"].cred).ok
    /\ verify_jwt(req["r1"].cred).sub = "u2"
    /\ local["r1"].call = Some(Call("delete", "monitor", "m1", <<>>))
    /\ \E m \in db.tenant_monitors : m.tenant_id = "A" /\ m.monitor_id = "m1"
    /\ resp["r1"] = ForbiddenResp

(***************************************************************************)
(* C24 as claimed: a trigger creation by a principal that can write, with  *)
(* a trigger_id the tenant does not use yet and the audit log working,     *)
(* succeeds exactly when the monitor it names has fewer than               *)
(* max_triggers_per_monitor triggers, whatever the other monitors have.    *)
(***************************************************************************)
C24_TriggerQuotaIsPerMonitor ==
    [][\A r \in Req :
         (/\ Calls(r, "create", "trigger") /\ can_write(TENANT_CONTEXT[r])
          /\ req[r].fault = NoFault
          /\ TriggerSelect(db, r, local'[r].call[1].id) = {})
            => (Succeeded(resp'[r])
                  <=> TriggersOn(r, local'[r].call[1].on)
                         < tenants[Ten(r)].max_triggers_per_monitor)]_vars

\* the matching can_create_* predicate of a quota status for the kind of
\* resource the call of this step creates
CanCreate(r, status) ==
    IF Calls(r, "create", "monitor") THEN can_create_monitor(status)
    ELSE IF Calls(r, "create", "network") THEN can_create_network(status)
    ELSE can_create_trigger(status)

(***************************************************************************)
(* C29 as claimed: a creation of a monitor, a network or a trigger by a    *)
(* principal that can write is rejected with QuotaExceeded exactly when    *)
(* the quota status computed at that moment reports no availability for    *)
(* the kind (the matching can_create_* predicate is false).                *)
(***************************************************************************)
C29_StatusAgreesWithEnforcement ==
    [][\A r \in Req : \A kind \in {"monitor", "network", "trigger"} :
         (Calls(r, "create", kind) /\ can_write(TENANT_CONTEXT[r]))
            => \A quota_status \in get_quota_status(db, Ten(r)) :
                  quota_status.ok =>
                     (resp'[r] = QuotaExceededResp <=> ~CanCreate(r, quota_status.val))]_vars

(***************************************************************************)
(* C30 as claimed: when a create, update or delete answers with an error,  *)
(* the stored resources are the ones before the call.                      *)
(***************************************************************************)
C30_ErrorLeavesStoreUnchanged ==
    [][\A r \in Req : (Serves(r) /\ ~Succeeded(resp'[r])) => db' = db]_vars

(***************************************************************************)
(* C25 as claimed: no stored monitor names a network that another tenant   *)
(* owns.                                                                   *)
(***************************************************************************)
C25_MonitorNetworkIsOwn ==
    \A m \in db.tenant_monitors : \A n \in db.tenant_networks :
        n.id = m.network_id => n.tenant_id = m.tenant_id

(***************************************************************************)
(* C26: concurrent requests of one tenant lose no rate-limit update: while *)
(* the requests admitted in the tenant's current window are no more than   *)
(* the limit of requests per minute, the stored count is their number.     *)
(***************************************************************************)
C26_NoLostRateLimitUpdate ==
    \A t \in Tenants :
        (RATE_LIMITS[t] # None /\ admitted[t] <= api_rate_limits.requests_per_minute_user)
            => RATE_LIMITS[t][1].count = admitted[t]

\* two requests of tenant A read the clock at the same instant, each took
\* the lock in turn, both are with their handler and the entry counts two
C26_Witness ==
    /\ pc["r1"] = "get_monitor" /\ pc["r2"] = "get_monitor"
    /\ local["r1"].at = local["r2"].at
    /\ admitted["A"] = 2
    /\ RATE_LIMITS["A"] # None /\ RATE_LIMITS["A"][1].count = 2

\* the task's credential is resolved by tenant_auth_middleware in this step
Resolves(r) ==
    pc[r] = "idle" /\ pc'[r] # "idle" /\ req'[r].entry = "tenant_auth_middleware"

(***************************************************************************)
(* C27: a revoked API key never authenticates.  When the key lookup itself *)
(* works, every resolution of a request that presents a key whose record   *)
(* is no longer active ends in 401 Unauthorized with no context bound.     *)
(***************************************************************************)
C27_RevokedKeyIsUnauthorized ==
    [][\A r \in Req : \A k \in api_keys :
        (/\ Resolves(r) /\ req'[r].fault # "key_lookup"
         /\ starts_with(req'[r].cred, api_key_prefix)
         /\ verify_password(strip_prefix(req'[r].cred, api_key_prefix), k.key_hash)
         /\ ~k.is_active)
            => /\ pc'[r] = "done" /\ resp'[r] = StatusOnly(401)
               /\ TENANT_CONTEXT'[r] = NoContext]_vars

\* key k1 of tenant A, active at first, was revoked and then presented for
\* tenant A and refused
C27_Witness ==
    \E r \in Req :
        /\ ViaAuth(r) /\ req[r].slug = "a" /\ req[r].cred = ApiKey("s1")
        /\ resp[r] = StatusOnly(401)
        /\ \E k \in api_keys : k.id = "k1" /\ ~k.is_active

(***************************************************************************)
(* C28: the key string create_api_key returned, presented unmodified for   *)
(* the tenant of the key while the key is active and not expired, takes    *)
(* the API-key flow and is resolved to the context of that key.            *)
(***************************************************************************)
C28_IssuedKeyAuthenticates ==
    [][\A r \in Req : \A q \in Req : \A k \in api_keys :
        (/\ Resolves(r) /\ req'[r].fault = NoFault
         /\ local[q].issued # None
         /\ local[q].issued[1].id = k.id /\ local[q].issued[1].key = req'[r].cred
         /\ tenants[k.tenant_id].slug = req'[r].slug
         /\ k.is_active /\ ~Expired(k))
            => /\ starts_with(req'[r].cred, api_key_prefix)
               /\ TENANT_CONTEXT'[r] = with_api_key(k.tenant_id, k.id)]_vars

(***************************************************************************)
(* C20 as claimed: a failed resolution binds no context, answers with one  *)
(* of 401, 403, 404 and 500, and the kind follows the cause: 500 when a    *)
(* persistence call failed (the outcome differs from the one with all      *)
(* calls working), one of the other three otherwise.                       *)
(***************************************************************************)
C20_FailureKindMatchesCause ==
    \A r \in Req :
        ResolutionFailed(r) =>
            /\ TENANT_CONTEXT[r] = NoContext
            /\ IF tenant_auth_middleware(req[r].slug, req[r].cred, req[r].fault)
                    # tenant_auth_middleware(req[r].slug, req[r].cred, NoFault)
               THEN resp[r].status = 500
               ELSE resp[r].status \in {401, 403, 404}

====
